---- MODULE Spec2Model ----
(***************************************************************************)
(* A model of the event-dispatch core of liberty.c: the timer heap, the    *)
(* readiness backends (epoll, kqueue, poll), the asynchronous job manager  *)
(* and the connector.  Every part has its own next-state relation and its  *)
(* own specification; the parts share no state, as in the code, where they *)
(* only meet in poller_run and poller_common_dispatch.                     *)
(***************************************************************************)
EXTENDS Integers, Sequences, FiniteSets, TLC

\* ------------------------------------------------------------- bounds ---

\* Number of poller_timer objects the program owns.
NTimers == 6
\* The monotonic clock runs from 0 to MaxTime.
MaxTime == 1
\* poller_timer_set is called with timeout_ms in 0..MaxTimeout.
MaxTimeout == 1
\* A run makes at most MaxCalls calls of poller_timer_set and poller_timer_reset.
MaxCalls == 8
\* A run of one pass and what leads to it makes at most MaxPassCalls of them.
MaxPassCalls == 9

\* Number of poller_fd objects the program owns; object f watches descriptor f.
NFds == 3
\* The registrations on descriptors that never become ready are at most
\* MaxQuiet.
MaxQuiet == 16
\* The jobs the program submits to the async manager.
NJobs == 2
\* The targets the program adds to the connector.
NTargets == 3
\* The addresses a resolution returns at most.
MaxAddrs == 2
\* The poller_idle objects the program owns.
NIdle == 3

Timers == 1..NTimers
Fds == 1..NFds
Jobs == 1..NJobs
Targets == 1..NTargets
Idles == 1..NIdle

VARIABLES
    \* --- struct poller_timers and its poller_timer objects
    heap,       \* poller_timers.heap[0..len-1], as a sequence (slot i is heap[i+1])
    tindex,     \* poller_timer.index of every timer, -1 when detached
    when,       \* poller_timer.when of every scheduled timer; the field of a
                \* detached timer is dead (poller_timer_set writes it before the
                \* timer enters the heap, and only heap slots are read): kept 0
    clock,      \* what poller_timers_get_current_time returns
    tpc,        \* where poller_timers_dispatch stands: "idle", "loop", "done"
    now,        \* the local `now' of the running poller_timers_dispatch
    fired,      \* the timers whose dispatcher the current pass has invoked, in
                \* order, each with the expiry it fired at
    due0,       \* the timers that were scheduled with when <= now as the pass began
    calls,      \* the number of poller_timer_set/reset calls made so far
    touched     \* a callback of the current pass has called poller_timer_set/reset

timerVars == <<heap, tindex, when, clock, tpc, now, fired, due0, calls, touched>>

VARIABLES
    \* --- struct poller (one of the three backends) and its poller_fd objects
    backend,        \* "epoll", "kqueue" or "poll": which struct poller was built
    fds,            \* poller.fds (epoll, kqueue) or poller.fds_data (poll)
    pollfds,        \* poller.fds of the poll backend: the struct pollfd array
    findex,         \* poller_fd.index of every poller_fd, -1 when not registered
    fevents,        \* poller_fd.events
    kreg,           \* the descriptors the kernel queue watches (epoll, kqueue)
    revents,        \* poller.revents: the batch the last wait returned
    revents_len,    \* poller.revents_len
    dispatch_next,  \* poller.dispatch_next (poll)
    ppc,            \* where poller_run stands: "idle" (not running), "timers",
                    \* "idles", "async", "fds", "abort", "nested"
    li,             \* the local i of poller_run's dispatch loop (epoll, kqueue)
    n_fds,          \* the local n_fds of poller_run (epoll, kqueue)
    incb,           \* TRUE while a dispatcher the loop has invoked is running
    captured,       \* the poller_fds whose readiness the current batch holds
    resetB,         \* those of them poller_fd_reset has removed in this iteration
    dispatched,     \* the dispatcher calls of this iteration, in order
    late,           \* the poller_fds dispatched after their removal in this iteration
    pfd,            \* <<>>, or the struct pollfd handed to the last dispatcher
                    \* of this iteration
    lastop          \* <<>>, or when the step just taken has removed a registration
                    \* with closed set: the poller_fd, the length before, the kernel call

fdVars == <<backend, fds, pollfds, findex, fevents, kreg, revents,
            revents_len, dispatch_next, ppc, li, n_fds, incb, captured,
            resetB,
            dispatched, late, pfd, lastop>>

VARIABLES
    \* --- struct async_manager, its struct async jobs and their threads
    running,        \* async_manager.running, head first
    finished,       \* async_manager.finished, head first
    delayed,        \* async_manager.delayed, head first
    life,           \* a job is "new", "submitted", or "destroyed" (destroy has run)
    started,        \* async.started
    cancelled,      \* async.cancelled
    wpc,            \* where the worker thread of a job stands, "none" without one
    cpend,          \* cancellation of the worker: "no", "pending", "acting"
    mutex,          \* async_manager.lock: 0 free, -1 the loop thread, j the worker of job j
    woken,          \* the waiter on finished_cond has been woken
    pipe,           \* finished_pipe holds bytes: its read end is readable
    mpc,            \* where the loop thread stands in the manager's code
    iter,           \* the local iter of async_manager_dispatch, 0 when none
    teardown,       \* async_manager_cancel_all has been entered
    ndisp,          \* the dispatcher calls a job has had
    ndestroy,       \* the destroy calls a job has had
    nexec,          \* the threads that have begun the job's execute
    nfail,          \* the thread creations that have failed for the job
    returned,       \* the job's execute has returned
    begins,         \* the dispatch calls begun since the job entered finished
    cancelAt,       \* the queue the job was in when async_cancel was first called
    tdDisp,         \* a dispatcher has been invoked since teardown began
    waited,         \* async_manager_cancel_all has waited on finished_cond
    tdQueue         \* the queue each job was in when teardown began

asyncVars == <<running, finished, delayed, life, started, cancelled, wpc,
               cpend, mutex, woken, pipe, mpc, iter, teardown, ndisp,
               ndestroy, nexec, nfail, returned, begins, cancelAt,
               tdDisp, waited, tdQueue>>

VARIABLES
    \* --- struct connector and its connector_targets
    targets,        \* connector.targets, head first
    tstate,         \* a target is "new", "pending" (getaddrinfo_event set),
                    \* "resolved" (results set), "failed" (getaddrinfo_error
                    \* set) or "destroyed"
    tleft,          \* the addresses from connector_target.iter on
    csocket,        \* connector.socket: "none" (-1), "connecting" (a socket
                    \* whose connect is in progress) or "closed" (the number
                    \* of a socket that connector_free has closed)
    cregistered,    \* connector.connected_event is registered with the poller
    gjob,           \* the resolution job of a target: "none", "running",
                    \* "cancelled" (async_cancel has been called) or "done"
                    \* (async_manager_dispatch has fetched and destroyed it)
    cpc,            \* "step" while connector_step has to run (again), else "idle"
    cfreed,         \* connector_free has been called
    nconnected,     \* the on_connected calls
    nfailure,       \* the on_failure calls
    nerror,         \* target -> the on_error calls made while it was the head
    nconnecting,    \* target -> the on_connecting calls made for it
    caddress,       \* the address the last on_connecting was given
    chost,          \* the hostname the last on_connected was given
    tres,           \* the resolutions dispatched, in order: <<target, "error" or "results">>
    texhausted      \* target -> connector_prepare_next has found no address left

connVars == <<targets, tstate, tleft, csocket, cpc, cfreed, nconnected,
              nfailure, nerror, nconnecting, caddress, chost, tres,
              texhausted, cregistered, gjob>>

\* The idle queue
VARIABLES
    ihead,          \* poller_common.idle: the first entry, or 0 (NULL)
    inext,          \* entry -> its next, or 0
    iprev,          \* entry -> its prev, or 0
    iactive,        \* entry -> its active flag
    ipc,            \* poller_idle_dispatch: "out", "loop", or "cb" in a callback
    iiter,          \* iter of poller_idle_dispatch
    isnext,         \* next of poller_idle_dispatch
    invoked,        \* entry -> the calls of its dispatcher in the pass
    atStart,        \* the entries active when the pass began
    ireset,        \* the entries a callback of the pass has deactivated
    stale,          \* the entries invoked in the pass while not active
    icall,          \* the last call: <<"set" or "reset", entry, active before>>
    iorder          \* the active entries, the one activated last first

idleVars == <<ihead, inext, iprev, iactive, ipc, iiter, isnext, invoked,
              atStart, ireset, stale, icall, iorder>>

\* The wait of poller_run
VARIABLES
    lwait           \* the last poller_common_get_timeout: what it returned, and
                    \* whether the idle list, the timer heap and the delayed queue
                    \* held anything then

waitVars == <<lwait>>

\* The dispatcher of a timer
VARIABLES
    tfire,          \* <<>>, or while the dispatcher that poller_timers_dispatch
                    \* has invoked runs: its timer, whether the timer was
                    \* detached as the call was made, and whether
                    \* poller_timer_set had scheduled it
    tarmed          \* timer -> poller_timer_set has scheduled it and it has not
                    \* fired or been reset since

fireVars == <<tfire, tarmed>>

\* The manager's lock, statement by statement
VARIABLES
    lkholder,       \* async_manager.lock: -1 when free, or the thread that
                    \* holds it (0 the loop thread, j the worker of job j)
    lkcode,         \* thread -> the statements it has still to execute
    lkqueue,        \* job -> "new", the queue it is in, "out" (in none), or
                    \* "destroyed"
    lkmut,          \* the queue mutations made so far: <<queue, "loop" or
                    \* "worker", whether the thread held the lock>>
    lkrec,          \* a thread has locked the mutex while holding it
    lkcalls,        \* the calls made so far: <<what, the job, whether the
                    \* thread held the lock>>; for async_run, whether it
                    \* was called from a dispatcher
    lkcancelled     \* the jobs whose cancelled flag is set

lockVars == <<lkholder, lkcode, lkqueue, lkmut, lkrec, lkcalls, lkcancelled>>

\* Two connectors side by side
VARIABLES
    adv             \* whether on_connecting and on_error are set -> the
                    \* connector: adv[TRUE] has both, adv[FALSE] has them NULL

advVars == <<adv>>

\* One pass of poller_timers_dispatch, seen from the timers
VARIABLES
    parmed,         \* timer -> "armed" when poller_timer_set was called on
                    \* it since the pass under way read the time, "fired"
                    \* when the pass has fired it since, "no" otherwise
    pincb           \* the pass under way has invoked a dispatcher

passVars == <<parmed, pincb>>

\* The arrays of the epoll backend and the batch that points into them
VARIABLES
    ealloc,         \* poller.alloc
    eset,           \* the poller_fd objects that are registered, of those
                    \* the model follows one by one
    equiet,         \* the number of further registrations, on descriptors
                    \* that never become ready
    edummy,         \* the allocation poller.dummy points to: 0 the array of
                    \* poller_init, one more with every reallocation that
                    \* moves the array and releases the old one
    erevents,       \* poller.revents: the batch, records of fd (what the
                    \* entry's data.ptr leads to), live (events is not -1)
                    \* and dummy (-1 as long as data.ptr is the poller_fd,
                    \* else the allocation of poller.dummy it points into)
    erevents_len,   \* poller.revents_len
    ei,             \* i of the loop of poller_run
    epc,            \* "idle", "cb" in a callback, "loop" between two
                    \* dispatchers, "abort" after a failed hard_assert
    ereleased       \* poller_compare_fds has read a released dummy slot

epVars == <<ealloc, eset, equiet, edummy, erevents, erevents_len, ei, epc,
            ereleased>>

vars == <<timerVars, fdVars, asyncVars, connVars, idleVars, waitVars,
          fireVars, lockVars, advVars, passVars, epVars>>

\* ------------------------------------------------------- the timer heap ---

\* The heap array and the back-indices, as one value the helpers pass along.
TimersState == [heap |-> heap, index |-> tindex]

\* Exchanges two slots of the heap and fixes both back-indices.
SwapSlots(s, i, j) ==
    [heap  |-> [s.heap EXCEPT ![i + 1] = s.heap[j + 1], ![j + 1] = s.heap[i + 1]],
     index |-> [s.index EXCEPT ![s.heap[j + 1]] = i, ![s.heap[i + 1]] = j]]

RECURSIVE poller_timers_heapify_down(_, _, _)
poller_timers_heapify_down(s, w, index) ==
    LET len    == Len(s.heap)
        left   == 2 * index + 1
        right  == 2 * index + 2
        low1   == IF left < len /\ w[s.heap[left + 1]] < w[s.heap[index + 1]]
                  THEN left ELSE index
        lowest == IF right < len /\ w[s.heap[right + 1]] < w[s.heap[low1 + 1]]
                  THEN right ELSE low1
    IN  IF lowest = index THEN s
        ELSE poller_timers_heapify_down(SwapSlots(s, index, lowest), w, lowest)

RECURSIVE poller_timers_heapify_up(_, _, _)
poller_timers_heapify_up(s, w, index) ==
    IF index = 0 THEN s
    ELSE LET parent == (index - 1) \div 2
         IN  IF w[s.heap[parent + 1]] <= w[s.heap[index + 1]] THEN s
             ELSE poller_timers_heapify_up(SwapSlots(s, parent, index), w, parent)

\* hard_assert (index < self->len) is the caller's duty: every caller passes
\* the index of a scheduled timer.
poller_timers_remove_at_index_stale(s, w, index) ==
    LET newlen  == Len(s.heap) - 1
        removed == s.heap[index + 1]
        last    == s.heap[newlen + 1]
        cut     == SubSeq(s.heap, 1, newlen)
        idx1    == [s.index EXCEPT ![removed] = -1]
    IN  IF index = newlen
        THEN [heap |-> cut, index |-> idx1]
        ELSE poller_timers_heapify_down(
                 [heap  |-> [cut EXCEPT ![index + 1] = last],
                  index |-> idx1], w, index)

poller_timers_remove_at_index(s, w, index) ==
    LET newlen  == Len(s.heap) - 1
        removed == s.heap[index + 1]
        last    == s.heap[newlen + 1]
        cut     == SubSeq(s.heap, 1, newlen)
        idx1    == [s.index EXCEPT ![removed] = -1]
    IN  IF index = newlen
        THEN [heap |-> cut, index |-> idx1]
        ELSE poller_timers_heapify_down(
                 [heap  |-> [cut EXCEPT ![index + 1] = last],
                  index |-> [idx1 EXCEPT ![last] = index]], w, index)

poller_timers_set(s, w, timer) ==
    IF s.index[timer] # -1
    THEN poller_timers_heapify_up(
             poller_timers_heapify_down(s, w, s.index[timer]), w, s.index[timer])
    ELSE poller_timers_heapify_up(
             [heap  |-> Append(s.heap, timer),
              index |-> [s.index EXCEPT ![timer] = Len(s.heap)]], w, Len(s.heap))

poller_timer_is_active(t) == tindex[t] # -1

\* A call made while poller_timers_dispatch is in its loop comes from the
\* callback of the timer that has just fired.
\* The record of the pass (fired, due0) is kept for passes whose callbacks
\* leave the timers alone, and dropped otherwise.
NotePass ==
    /\ calls < MaxCalls
    /\ calls' = calls + 1
    /\ tpc' = IF tpc = "done" THEN "idle" ELSE tpc
    /\ touched' = (tpc = "loop")
    /\ fired' = <<>>
    /\ due0' = {}
    /\ now' = IF tpc = "loop" THEN now ELSE 0

poller_timer_set(t, timeout_ms) ==
    LET w == [when EXCEPT ![t] = clock + timeout_ms]
        s == poller_timers_set(TimersState, w, t)
    IN  /\ when' = w
        /\ heap' = s.heap
        /\ tindex' = s.index
        /\ NotePass
        /\ UNCHANGED clock

poller_timer_reset(t) ==
    LET s == IF tindex[t] # -1
             THEN poller_timers_remove_at_index(TimersState, when, tindex[t])
             ELSE TimersState
    IN  /\ heap' = s.heap
        /\ tindex' = s.index
        /\ when' = [when EXCEPT ![t] = 0]
        /\ NotePass
        /\ UNCHANGED clock

\* poller_timers_dispatch, up to its loop: the time is read once.
TimersDispatchBegin ==
    /\ tpc # "loop"
    /\ tpc' = "loop"
    /\ now' = clock
    /\ fired' = <<>>
    /\ due0' = {t \in Timers : tindex[t] # -1 /\ when[t] <= clock}
    /\ touched' = FALSE
    /\ UNCHANGED <<heap, tindex, when, clock, calls>>

\* One turn of the loop: the root is removed, then its dispatcher is invoked.
TimersDispatchStep ==
    /\ tpc = "loop"
    /\ Len(heap) > 0
    /\ when[heap[1]] <= now
    /\ LET s == poller_timers_remove_at_index(TimersState, when, 0)
       IN  /\ heap' = s.heap
           /\ tindex' = s.index
    /\ when' = [when EXCEPT ![heap[1]] = 0]
    /\ fired' = IF touched THEN <<>>
                ELSE Append(fired, [timer |-> heap[1], when |-> when[heap[1]]])
    /\ UNCHANGED <<clock, tpc, now, due0, calls, touched>>

\* The loop's condition fails and poller_timers_dispatch returns.
TimersDispatchEnd ==
    /\ tpc = "loop"
    /\ ~(Len(heap) > 0 /\ when[heap[1]] <= now)
    /\ tpc' = IF touched THEN "idle" ELSE "done"
    /\ touched' = FALSE
    /\ now' = IF touched THEN 0 ELSE now
    /\ UNCHANGED <<heap, tindex, when, clock, fired, due0, calls>>

\* Time passes.
Tick ==
    /\ clock < MaxTime
    /\ clock' = clock + 1
    /\ UNCHANGED <<heap, tindex, when, tpc, now, fired, due0, calls, touched>>

TimersInit ==
    /\ heap = <<>>
    /\ tindex = [t \in Timers |-> -1]
    /\ when = [t \in Timers |-> 0]
    /\ clock = 0
    /\ tpc = "idle"
    /\ now = 0
    /\ fired = <<>>
    /\ due0 = {}
    /\ calls = 0
    /\ touched = FALSE

\* Detached timers are indistinguishable (index -1, no expiry), so a caller
\* arming a detached timer takes the lowest-numbered one.
Fresh(t) == tindex[t] # -1 \/ \A u \in Timers : u < t => tindex[u] # -1

\* The timer heap shares no state with the other parts.
TimersFrame ==
    UNCHANGED <<fdVars, asyncVars, connVars, idleVars, waitVars,
                fireVars, lockVars, advVars, passVars, epVars>>

TimersNext ==
    \/ \E t \in Timers, timeout_ms \in 0..MaxTimeout :
           /\ Fresh(t)
           /\ poller_timer_set(t, timeout_ms)
           /\ TimersFrame
    \/ \E t \in Timers : poller_timer_reset(t) /\ TimersFrame
    \/ TimersDispatchBegin /\ TimersFrame
    \/ TimersDispatchStep /\ TimersFrame
    \/ TimersDispatchEnd /\ TimersFrame
    \/ Tick /\ TimersFrame

\* --- the dispatcher of a timer, seen from poller_timers_dispatch

FireFrame ==
    UNCHANGED <<fdVars, asyncVars, connVars, idleVars, waitVars, lockVars, advVars, passVars, epVars>>

\* poller_timer_set, from the program or from the running dispatcher.
FireSet(t, timeout_ms) ==
    /\ poller_timer_set(t, timeout_ms)
    /\ tarmed' = [tarmed EXCEPT ![t] = TRUE]
    /\ UNCHANGED tfire

\* poller_timer_reset, from the program or from the running dispatcher.
FireReset(t) ==
    /\ poller_timer_reset(t)
    /\ tarmed' = [tarmed EXCEPT ![t] = FALSE]
    /\ UNCHANGED tfire

\* The dispatcher is invoked with its timer still at the root.
FireDispatchStep_first ==
    /\ tpc = "loop"
    /\ Len(heap) > 0
    /\ when[heap[1]] <= now
    /\ tfire' = [timer    |-> heap[1],
                 detached |-> /\ tindex[heap[1]] = -1
                              /\ \A i \in 1..Len(heap) : heap[i] # heap[1],
                 armed    |-> tarmed[heap[1]]]
    /\ tarmed' = [tarmed EXCEPT ![heap[1]] = FALSE]
    /\ UNCHANGED timerVars

\* One turn of the loop of poller_timers_dispatch, up to the call of
\* timer->dispatcher: what the dispatcher finds as it is entered.
FireDispatchStep ==
    /\ TimersDispatchStep
    /\ tfire' = [timer    |-> heap[1],
                 detached |-> /\ tindex'[heap[1]] = -1
                              /\ \A i \in 1..Len(heap') : heap'[i] # heap[1],
                 armed    |-> tarmed[heap[1]]]
    /\ tarmed' = [tarmed EXCEPT ![heap[1]] = FALSE]

FireDispatchBegin == TimersDispatchBegin /\ tfire' = <<>> /\ UNCHANGED tarmed

FireDispatchEnd == TimersDispatchEnd /\ tfire' = <<>> /\ UNCHANGED tarmed

FireInit == tfire = <<>> /\ tarmed = [t \in Timers |-> FALSE]

\* The program and its dispatchers set and reset timers, four scheduled at
\* a time at most; time passes; poller_timers_dispatch runs.
FireNext ==
    \/ \E t \in Timers, timeout_ms \in 0..MaxTimeout :
           /\ Fresh(t)
           /\ tindex[t] # -1 \/ Len(heap) < 4
           /\ FireSet(t, timeout_ms)
           /\ FireFrame
    \/ \E t \in Timers : tindex[t] # -1 /\ FireReset(t) /\ FireFrame
    \/ FireDispatchBegin /\ FireFrame
    \/ FireDispatchStep /\ FireFrame
    \/ FireDispatchEnd /\ FireFrame
    \/ Tick /\ UNCHANGED fireVars /\ FireFrame

\* --- one pass of poller_timers_dispatch and the timers armed in it

PassFrame ==
    UNCHANGED <<fdVars, asyncVars, connVars, idleVars, waitVars, fireVars,
                lockVars, advVars, epVars>>

\* What the pass leaves alone of the bookkeeping of the heap's claims.
PassKeeps == UNCHANGED <<fired, due0, touched>>

\* poller_timer_set: during a pass the call comes from a dispatcher the
\* pass has invoked.
PassSet(t, timeout_ms) ==
    LET w == [when EXCEPT ![t] = clock + timeout_ms]
        s == poller_timers_set(TimersState, w, t)
    IN  /\ calls < MaxPassCalls
        /\ calls' = calls + 1
        /\ when' = w
        /\ heap' = s.heap
        /\ tindex' = s.index
        /\ parmed' = IF tpc = "loop" THEN [parmed EXCEPT ![t] = "armed"]
                      ELSE parmed
        /\ PassKeeps
        /\ UNCHANGED <<clock, tpc, now, pincb>>

\* poller_timer_reset of a scheduled timer.
PassReset(t) ==
    LET s == poller_timers_remove_at_index(TimersState, when, tindex[t])
    IN  /\ calls < MaxPassCalls
        /\ calls' = calls + 1
        /\ heap' = s.heap
        /\ tindex' = s.index
        /\ when' = [when EXCEPT ![t] = 0]
        /\ parmed' = [parmed EXCEPT ![t] = IF @ = "armed" THEN "no" ELSE @]
        /\ PassKeeps
        /\ UNCHANGED <<clock, tpc, now, pincb>>

\* int64_t now = poller_timers_get_current_time ();
PassDispatchBegin ==
    /\ tpc = "idle"
    /\ tpc' = "loop"
    /\ now' = clock
    /\ parmed' = [t \in Timers |-> "no"]
    /\ pincb' = FALSE
    /\ PassKeeps
    /\ UNCHANGED <<heap, tindex, when, clock, calls>>

\* One turn of the loop: the root is removed, then its dispatcher is invoked.
PassDispatchStep ==
    /\ tpc = "loop"
    /\ Len(heap) > 0
    /\ when[heap[1]] <= now
    /\ LET s == poller_timers_remove_at_index(TimersState, when, 0)
       IN  /\ heap' = s.heap
           /\ tindex' = s.index
    /\ when' = [when EXCEPT ![heap[1]] = 0]
    /\ parmed' = [parmed EXCEPT ![heap[1]] = "fired"]
    /\ pincb' = TRUE
    /\ PassKeeps
    /\ UNCHANGED <<clock, tpc, now, calls>>

\* The loop's condition fails and poller_timers_dispatch returns; the
\* model follows one pass.
PassDispatchEnd ==
    /\ tpc = "loop"
    /\ ~(Len(heap) > 0 /\ when[heap[1]] <= now)
    /\ tpc' = "done"
    /\ pincb' = FALSE
    /\ PassKeeps
    /\ UNCHANGED <<heap, tindex, when, clock, now, calls, parmed>>

\* Time passes while the pass is under way, after it has read the time.
PassTick == tpc = "loop" /\ Tick /\ UNCHANGED passVars

PassInit == parmed = [t \in Timers |-> "no"] /\ pincb = FALSE

\* A dispatcher the pass has invoked is running.
PassInDispatcher == tpc = "loop" /\ pincb

\* Before the pass the program arms timers that are not scheduled; the
\* dispatchers the pass invokes arm, re-arm and reset timers as they like.
PassNext ==
    \/ \E t \in Timers, timeout_ms \in 0..MaxTimeout :
           /\ PassInDispatcher \/ (tpc = "idle" /\ tindex[t] = -1)
           /\ Fresh(t)
           /\ PassSet(t, timeout_ms)
           /\ PassFrame
    \/ \E t \in Timers :
           PassInDispatcher /\ tindex[t] # -1 /\ PassReset(t) /\ PassFrame
    \/ PassDispatchBegin /\ PassFrame
    \/ PassDispatchStep /\ PassFrame
    \/ PassDispatchEnd /\ PassFrame
    \/ PassTick /\ PassFrame

\* -------------------------------------------------- readiness backends ---

Backends == {"epoll", "kqueue", "poll"}

\* The interest sets poller_fd_set is called with.
Interests == {{"IN"}, {"IN", "OUT"}}

\* The non-empty sets of events the kernel may report for an interest set.
Reports(interest) == {{"IN"}, interest}

\* a->fd - b->fd (epoll, through data.ptr) or a->ident - b->ident (kqueue).
poller_compare_fds(a, b) == a.fd - b.fd

\* bsearch (3) over base[0..nmemb-1], which qsort has ordered: -1 when absent.
RECURSIVE bsearch(_, _, _, _)
bsearch(key, base, lo, hi) ==
    IF lo >= hi THEN -1
    ELSE LET mid == (lo + hi) \div 2
             c   == poller_compare_fds(key, base[mid + 1])
         IN  IF c = 0 THEN mid
             ELSE IF c < 0 THEN bsearch(key, base, lo, mid)
             ELSE bsearch(key, base, mid + 1, hi)

\* The orders qsort may leave the records of a batch in: ascending by
\* descriptor, the records of one descriptor in either order.
SortedBatches(recs) ==
    {b \in [1..Cardinality(recs) -> recs] :
        /\ \A i, j \in DOMAIN b : i # j => b[i] # b[j]
        /\ \A i, j \in DOMAIN b : i < j => poller_compare_fds(b[i], b[j]) <= 0}

\* epoll: the entry of the removed descriptor is marked (events = -1) and
\* made to point into poller.dummy, which keeps the descriptor number.
poller_remove_from_dispatch_epoll(batch, len, f) ==
    IF len = 0 THEN batch
    ELSE LET at == bsearch([fd |-> f], batch, 0, len)
         IN  IF at = -1 THEN batch
             ELSE [batch EXCEPT ![at + 1] =
                      [fd |-> f, obj |-> 0, ev |-> {}, filter |-> "NONE",
                       dummy |-> TRUE]]

poller_dummify(batch, at) == [batch EXCEPT ![at + 1].dummy = TRUE]

\* kqueue: the descriptor may hold two records, next to each other.
poller_remove_from_dispatch_kqueue(batch, len, f) ==
    IF len = 0 THEN batch
    ELSE LET key == [fd |-> f]
             at  == bsearch(key, batch, 0, len)
             b1  == IF at > 0 /\ poller_compare_fds(key, batch[at]) = 0
                    THEN poller_dummify(batch, at - 1) ELSE batch
             b2  == poller_dummify(b1, at)
         IN  IF at = -1 THEN batch
             ELSE IF at < len - 1 /\ poller_compare_fds(key, batch[at + 2]) = 0
                  THEN poller_dummify(b2, at + 1) ELSE b2

poller_remove_from_dispatch_none(batch, len, f) == batch

poller_remove_from_dispatch(batch, len, f) ==
    IF backend = "epoll" THEN poller_remove_from_dispatch_epoll(batch, len, f)
    ELSE IF backend = "kqueue" THEN poller_remove_from_dispatch_kqueue(batch, len, f)
    ELSE batch

\* The arrays of the poller after removing slot `index': epoll and kqueue
\* move the last element into the slot.
RemoveSwap(arr, index) ==
    LET newlen == Len(arr) - 1
    IN  IF index = newlen THEN SubSeq(arr, 1, newlen)
        ELSE [SubSeq(arr, 1, newlen) EXCEPT ![index + 1] = arr[newlen + 1]]

\* poll, below dispatch_next: memmove closes the gap.
RemoveShift(arr, index) ==
    [i \in 1..(Len(arr) - 1) |-> IF i <= index THEN arr[i] ELSE arr[i + 1]]

\* The back-indices when the element that was moved keeps its old index.
IndexAfterSwap_stale(arr, index) == [findex EXCEPT ![arr[index + 1]] = -1]

\* The back-indices after RemoveSwap: fd->index = -1, and the index of the
\* element that was moved.
IndexAfterSwap(arr, index) ==
    LET newlen == Len(arr) - 1
    IN  IF index = newlen THEN [findex EXCEPT ![arr[index + 1]] = -1]
        ELSE [findex EXCEPT ![arr[index + 1]] = -1, ![arr[newlen + 1]] = index]

\* The back-indices after RemoveShift: fd->index = -1, and
\* fds_data[i]->index = i from the gap on.
IndexAfterShift(arr, index) ==
    [g \in Fds |->
        IF g = arr[index + 1] THEN -1
        ELSE IF \E i \in (index + 2)..Len(arr) : arr[i] = g
             THEN (CHOOSE i \in (index + 2)..Len(arr) : arr[i] = g) - 2
             ELSE findex[g]]

\* poller_run after the wait: poller_common_dispatch, which is
\* poller_timers_dispatch, poller_idle_dispatch and async_manager_dispatch,
\* and then the loop over the descriptors.
poller_common_dispatch == <<"timers", "idles", "async", "fds">>

CommonPhases == {"timers", "idles", "async"}

\* The place of a phase in the iteration.
PhaseIndex(phase) ==
    CHOOSE i \in 1..Len(poller_common_dispatch) : poller_common_dispatch[i] = phase

\* The program's own code runs: outside poller_run, in a callback of
\* poller_common_dispatch, or in a dispatcher the loop has invoked.
InUserCode == ppc = "idle" \/ ppc \in CommonPhases \/ (ppc = "fds" /\ incb)

\* What the iteration records of a removal: the poller_fd is out of the batch.
NoteReset(f) ==
    /\ resetB' = IF ppc \in CommonPhases \cup {"fds"} /\ f \in captured
                 THEN resetB \cup {f} ELSE resetB
    /\ UNCHANGED <<captured, dispatched, late, pfd>>

\* EPOLL_CTL_DEL / EV_DELETE is issued whatever fd->closed says.
KernelDelete_always(closed) == backend # "poll"

\* if (!fd->closed) epoll_ctl (EPOLL_CTL_DEL), if (fd->closed) return before
\* kevent (EV_DELETE); the poll backend makes no kernel call.
KernelDelete(closed) == backend # "poll" /\ ~closed

\* The arrays are never compacted: the last element always fills the gap.
DisruptsDispatch_never(index) == FALSE

\* poll: if (index == --self->len) return; is passed, and
\* (int) index < self->dispatch_next.
DisruptsDispatch(index) ==
    backend = "poll" /\ index # Len(fds) - 1 /\ index < dispatch_next

\* fd->closed only decides whether EPOLL_CTL_DEL / EV_DELETE is issued: a
\* descriptor its owner has closed has left the kernel queue with the close,
\* so kreg loses the descriptor either way.
poller_remove_at_index(index, closed) ==
    LET f == fds[index + 1]
    IN  /\ revents' = poller_remove_from_dispatch(revents, revents_len, f)
        /\ lastop' = IF closed
                     THEN [obj |-> f, len |-> Len(fds),
                           ctl |-> IF KernelDelete(closed) THEN "DEL" ELSE "none"]
                     ELSE <<>>
        /\ kreg' = IF backend # "poll" THEN kreg \ {f} ELSE kreg
        /\ IF DisruptsDispatch(index)
           THEN /\ fds' = RemoveShift(fds, index)
                /\ findex' = IndexAfterShift(fds, index)
                /\ pollfds' = RemoveShift(pollfds, index)
                /\ dispatch_next' = dispatch_next - 1
           ELSE /\ fds' = RemoveSwap(fds, index)
                /\ findex' = IndexAfterSwap(fds, index)
                /\ pollfds' = IF backend = "poll" THEN RemoveSwap(pollfds, index)
                              ELSE pollfds
                /\ UNCHANGED dispatch_next
        /\ NoteReset(f)

\* poller_fd_reset, on a poller_fd whose owner has or has not closed the
\* descriptor and set fd->closed just before. poller_fd.events of a
\* poller_fd that is not registered is dead (poller_fd_set writes it before
\* poller_set reads it): kept {}.
poller_fd_reset(f, closed) ==
    /\ InUserCode
    /\ IF findex[f] # -1
       THEN /\ poller_remove_at_index(findex[f], closed)
            /\ fevents' = [fevents EXCEPT ![f] = {}]
       ELSE /\ lastop' = <<>>
            /\ UNCHANGED <<fds, pollfds, findex, fevents, kreg, revents,
                           dispatch_next, captured, resetB, dispatched, late, pfd>>
    /\ UNCHANGED <<backend, revents_len, ppc, li, n_fds, incb>>

\* poller_fd_set: the interest is stored, then poller_set registers or
\* modifies; the poll backend rewrites the whole struct pollfd.
poller_fd_set(f, events) ==
    /\ InUserCode
    /\ fevents' = [fevents EXCEPT ![f] = events]
    /\ IF findex[f] = -1
       THEN /\ fds' = Append(fds, f)
            /\ findex' = [findex EXCEPT ![f] = Len(fds)]
       ELSE UNCHANGED <<fds, findex>>
    /\ pollfds' = IF backend # "poll" THEN pollfds
                  ELSE IF findex[f] = -1
                       THEN Append(pollfds, [fd |-> f, events |-> events, revents |-> {}])
                       ELSE [pollfds EXCEPT ![findex[f] + 1] =
                                [fd |-> f, events |-> events, revents |-> {}]]
    /\ kreg' = IF backend # "poll" THEN kreg \cup {f} ELSE kreg
    /\ lastop' = <<>>
    /\ UNCHANGED <<backend, revents, revents_len, dispatch_next, ppc,
                   li, n_fds, incb, captured, resetB, dispatched, late, pfd>>

\* The records one wait of the kernel queue may return.
EpollRecords(f) ==
    {[fd |-> f, obj |-> f, ev |-> e, filter |-> "NONE", dummy |-> FALSE] :
        e \in Reports(fevents[f])}

\* The descriptors whose peer may hang up.
HangupFds == {f \in Fds : \A g \in Fds : f <= g}

\* flags holds EV_EOF or not; fflags, the socket error that comes with
\* EV_EOF, is zero or not.
KqueueRecords(f) ==
    {[fd |-> f, obj |-> f, ev |-> {}, filter |-> k, flags |-> fl[1],
      fflags |-> fl[2], dummy |-> FALSE] :
        k \in {"READ" : x \in fevents[f] \cap {"IN"}}
              \cup {"WRITE" : x \in fevents[f] \cap {"OUT"}},
        fl \in IF f \in HangupFds
               THEN {<<{}, 0>>, <<{"EV_EOF"}, 0>>, <<{"EV_EOF"}, 1>>}
               ELSE {<<{}, 0>>}}

\* poller_run of the epoll and kqueue backends, up to poller_common_dispatch:
\* the re-entrancy assertion, the wait, the sort.
PollerRunWaitQueue ==
    /\ backend \in {"epoll", "kqueue"}
    /\ ppc = "idle"
    /\ revents_len = 0
    /\ \E ready \in SUBSET (kreg \cap {f \in Fds : findex[f] # -1}) :
       \E recs \in SUBSET UNION {IF backend = "epoll" THEN EpollRecords(f)
                                  ELSE KqueueRecords(f) : f \in ready} :
           /\ \A f \in ready : \E r \in recs : r.obj = f
           /\ backend = "epoll" => \A r1, r2 \in recs : r1.obj = r2.obj => r1 = r2
           /\ backend = "kqueue" => Cardinality(recs) <= Len(fds)
           /\ backend = "kqueue" =>
                  \A r1, r2 \in recs :
                      r1.obj = r2.obj /\ r1.filter = r2.filter => r1 = r2
           /\ \E b \in SortedBatches(recs) : revents' = b
           /\ captured' = ready
           /\ n_fds' = Cardinality(recs)
           /\ revents_len' = Cardinality(recs)
    /\ ppc' = poller_common_dispatch[1]
    /\ li' = 0
    /\ resetB' = {}
    /\ dispatched' = <<>>
    /\ late' = {}
    /\ pfd' = <<>>
    /\ UNCHANGED <<backend, fds, pollfds, findex, fevents, kreg,
                   dispatch_next, incb>>
    /\ lastop' = <<>>

\* poller_run of the poll backend, up to poller_common_dispatch: poll (2)
\* writes the revents of every entry.
PollerRunWaitPoll ==
    /\ backend = "poll"
    /\ ppc = "idle"
    /\ dispatch_next = -1
    /\ \E ready \in SUBSET {f \in Fds : findex[f] # -1} :
       \E rep \in [ready -> SUBSET {"IN", "OUT"}] :
           /\ \A f \in ready : rep[f] \in Reports(fevents[f])
           /\ pollfds' = [i \in 1..Len(pollfds) |->
                             [pollfds[i] EXCEPT !.revents =
                                 IF fds[i] \in ready THEN rep[fds[i]] ELSE {}]]
           /\ captured' = ready
    /\ ppc' = poller_common_dispatch[1]
    /\ resetB' = {}
    /\ dispatched' = <<>>
    /\ late' = {}
    /\ pfd' = <<>>
    /\ UNCHANGED <<backend, fds, findex, fevents, kreg, revents,
                   revents_len, dispatch_next, li, n_fds, incb>>
    /\ lastop' = <<>>

\* One of the calls of poller_common_dispatch has returned (its callbacks
\* are the calls made while ppc is at it) and the next begins; after the last
\* the dispatch loop begins.
PollerCommonDone ==
    /\ ppc \in CommonPhases
    /\ ppc' = poller_common_dispatch[PhaseIndex(ppc) + 1]
    /\ UNCHANGED <<backend, fds, pollfds, findex, fevents, kreg,
                   revents, revents_len, dispatch_next, li, n_fds, incb,
                   captured, resetB, dispatched, late, pfd>>
    /\ lastop' = <<>>

\* hard_assert (!self->revents_len), hard_assert (self->dispatch_next == -1)
NotReentrant ==
    IF backend = "poll" THEN dispatch_next = -1 ELSE revents_len = 0

\* A callback of the iteration in progress calls poller_run: the assertion
\* aborts the program, or the call goes on to the wait, inside the first
\* one. What the inner call does then is not followed any further.
PollerRunReentrant ==
    /\ ppc \in CommonPhases \/ (ppc = "fds" /\ incb)
    /\ ppc' = IF NotReentrant THEN "nested" ELSE "abort"
    /\ UNCHANGED <<backend, fds, pollfds, findex, fevents, kreg,
                   revents, revents_len, dispatch_next, li, n_fds, incb,
                   captured, resetB, dispatched, late, pfd>>
    /\ lastop' = <<>>

\* fd->dispatcher (&pfd, fd->user_data)
InvokeDispatcher(f, pfd_revents) ==
    /\ incb' = TRUE
    /\ dispatched' = Append(dispatched, f)
    /\ late' = IF f \in resetB THEN late \cup {f} ELSE late
    /\ pfd' = [fd |-> f, revents |-> pfd_revents]
    /\ UNCHANGED <<captured, resetB>>

poller_epoll_to_poll_events(events) == events \cap {"IN", "OUT", "ERR", "HUP", "PRI"}

\* One turn of the epoll dispatch loop.
PollerRunStepEpoll ==
    /\ backend = "epoll"
    /\ ppc = "fds"
    /\ li < n_fds
    /\ LET e == revents[li + 1]
       IN  IF e.dummy
           THEN /\ incb' = FALSE
                /\ UNCHANGED <<ppc, captured, resetB, dispatched, late, pfd>>
           ELSE IF findex[e.obj] = -1
                THEN /\ ppc' = "abort"
                     /\ incb' = FALSE
                     /\ UNCHANGED <<captured, resetB, dispatched, late, pfd>>
                ELSE /\ InvokeDispatcher(e.obj, poller_epoll_to_poll_events(e.ev))
                     /\ UNCHANGED ppc
    /\ li' = li + 1
    /\ UNCHANGED <<backend, fds, pollfds, findex, fevents, kreg,
                   revents, revents_len, dispatch_next, n_fds>>
    /\ lastop' = <<>>

poller_kqueue_to_poll_events(event) ==
    (IF event.filter = "READ"
     THEN {"IN"} \cup (IF "EV_EOF" \in event.flags /\ event.fflags # 0
                       THEN {"ERR"} ELSE {})
     ELSE {})
    \cup (IF event.filter = "WRITE" THEN {"OUT"} ELSE {})
    \cup (IF "EV_EOF" \in event.flags THEN {"HUP"} ELSE {})

\* Records are never merged.
Siblings_one(i, sibling) == sibling

\* The number of records from slot i on that hold the descriptor of slot i.
RECURSIVE Siblings(_, _)
Siblings(i, sibling) ==
    IF i + sibling < n_fds
       /\ poller_compare_fds(revents[i + 1], revents[i + sibling + 1]) = 0
    THEN Siblings(i, sibling + 1) ELSE sibling

\* One turn of the kqueue dispatch loop: the records of one descriptor are
\* merged into one call.
PollerRunStepKqueue ==
    /\ backend = "kqueue"
    /\ ppc = "fds"
    /\ li < n_fds
    /\ LET e == revents[li + 1]
           n == Siblings(li, 1)
           merged == UNION {poller_kqueue_to_poll_events(revents[li + k]) : k \in 1..n}
           final == IF "HUP" \in merged /\ "OUT" \in merged
                    THEN merged \ {"OUT"} ELSE merged
       IN  IF e.dummy
           THEN /\ li' = li + 1
                /\ incb' = FALSE
                /\ UNCHANGED <<ppc, captured, resetB, dispatched, late, pfd>>
           ELSE IF findex[e.obj] = -1
                THEN /\ ppc' = "abort"
                     /\ li' = li
                     /\ incb' = FALSE
                     /\ UNCHANGED <<captured, resetB, dispatched, late, pfd>>
                ELSE /\ InvokeDispatcher(e.obj, final)
                     /\ li' = li + n
                     /\ UNCHANGED ppc
    /\ UNCHANGED <<backend, fds, pollfds, findex, fevents, kreg,
                   revents, revents_len, dispatch_next, n_fds>>
    /\ lastop' = <<>>

\* The i the poll dispatch loop continues at: 0 at first, then what the
\* callbacks have left in dispatch_next.
PollLoopIndex == IF dispatch_next = -1 THEN 0 ELSE dispatch_next

\* One turn of the poll dispatch loop.
PollerRunStepPoll ==
    /\ backend = "poll"
    /\ ppc = "fds"
    /\ PollLoopIndex < Len(fds)
    /\ LET i == PollLoopIndex
       IN  /\ dispatch_next' = i + 1
           /\ IF pollfds[i + 1].revents # {}
              THEN InvokeDispatcher(fds[i + 1], pollfds[i + 1].revents)
              ELSE /\ incb' = FALSE
                   /\ UNCHANGED <<captured, resetB, dispatched, late, pfd>>
    /\ UNCHANGED <<backend, fds, pollfds, findex, fevents, kreg,
                   revents, revents_len, ppc, li, n_fds>>
    /\ lastop' = <<>>

\* The loop is over and poller_run returns.
PollerRunEnd ==
    /\ ppc = "fds"
    /\ IF backend = "poll" THEN PollLoopIndex >= Len(fds) ELSE li >= n_fds
    /\ ppc' = "idle"
    /\ revents_len' = 0
    /\ dispatch_next' = -1
    \* what the next wait overwrites, and the locals of this call
    /\ revents' = <<>>
    /\ li' = 0
    /\ n_fds' = 0
    /\ incb' = FALSE
    /\ captured' = {}
    /\ resetB' = {}
    /\ dispatched' = <<>>
    /\ late' = {}
    /\ pfd' = <<>>
    /\ UNCHANGED <<backend, fds, pollfds, findex, fevents, kreg>>
    /\ lastop' = <<>>

FdInit ==
    /\ backend \in Backends
    /\ fds = <<>>
    /\ pollfds = <<>>
    /\ findex = [f \in Fds |-> -1]
    /\ fevents = [f \in Fds |-> {}]
    /\ kreg = {}
    /\ revents = <<>>
    /\ revents_len = 0
    /\ dispatch_next = -1
    /\ ppc = "idle"
    /\ li = 0
    /\ n_fds = 0
    /\ incb = FALSE
    /\ captured = {}
    /\ resetB = {}
    /\ dispatched = <<>>
    /\ late = {}
    /\ pfd = <<>>
    /\ lastop = <<>>

\* The backends share no state with the other parts.
FdFrame ==
    UNCHANGED <<timerVars, asyncVars, connVars, idleVars, waitVars,
                fireVars, lockVars, advVars, passVars, epVars>>

FdNext ==
    \/ \E f \in Fds, events \in Interests : poller_fd_set(f, events) /\ FdFrame
    \/ \E f \in Fds, closed \in BOOLEAN : poller_fd_reset(f, closed) /\ FdFrame
    \/ PollerRunWaitQueue /\ FdFrame
    \/ PollerRunWaitPoll /\ FdFrame
    \/ PollerCommonDone /\ FdFrame
    \/ PollerRunReentrant /\ FdFrame
    \/ PollerRunStepEpoll /\ FdFrame
    \/ PollerRunStepKqueue /\ FdFrame
    \/ PollerRunStepPoll /\ FdFrame
    \/ PollerRunEnd /\ FdFrame

\* --- the epoll backend: the arrays grow while a batch is dispatched

POLLER_MIN_ALLOC == 16

EpFrame ==
    UNCHANGED <<timerVars, fdVars, asyncVars, connVars, idleVars, waitVars,
                fireVars, lockVars, advVars, passVars>>

\* self->len
EpLen == Cardinality(eset) + equiet

\* The entry's data.ptr points into an array of dummies that a
\* reallocation has released.
Released(e) == e.dummy # -1 /\ e.dummy # edummy

Sign(n) == IF n < 0 THEN -1 ELSE IF n > 0 THEN 1 ELSE 0

\* What a->fd - b->fd may give: b is read through the entry's data.ptr, and
\* the read of a released slot gives whatever is there now.
poller_compare_fds_epoll(key, e) ==
    IF Released(e) THEN {-1, 0, 1} ELSE {Sign(key - e.fd)}

\* bsearch (3) over base[0..nmemb-1]: the slots it may return (-1 when it
\* finds none), each with whether a released slot was read on the way.
RECURSIVE bsearch_epoll(_, _, _, _)
bsearch_epoll(key, base, lo, hi) ==
    IF lo >= hi THEN {[at |-> -1, released |-> FALSE]}
    ELSE LET mid == (lo + hi) \div 2
             e   == base[mid + 1]
         IN  UNION {IF c = 0 THEN {[at |-> mid, released |-> Released(e)]}
                    ELSE {[at |-> r.at, released |-> r.released \/ Released(e)] :
                          r \in IF c < 0 THEN bsearch_epoll(key, base, lo, mid)
                                 ELSE bsearch_epoll(key, base, mid + 1, hi)} :
                    c \in poller_compare_fds_epoll(key, e)}

\* poller_ensure_space: with len = alloc the three arrays are reallocated
\* to twice the size; xreallocarray may extend an array where it is or move
\* it and release the old one.
poller_ensure_space ==
    IF EpLen < ealloc THEN UNCHANGED <<ealloc, edummy>>
    ELSE /\ ealloc' = 2 * ealloc
         /\ \E moved \in BOOLEAN : edummy' = IF moved THEN edummy + 1 ELSE edummy

\* The program's own code runs: outside poller_run or in a callback.
EpUserCode == epc \in {"idle", "cb"}

\* poller_fd_set of a poller_fd the model follows.
EpSet(f) ==
    /\ EpUserCode
    /\ IF f \in eset THEN UNCHANGED <<ealloc, edummy, eset>>
       ELSE poller_ensure_space /\ eset' = eset \cup {f}
    /\ UNCHANGED <<equiet, erevents, erevents_len, ei, epc, ereleased>>

\* poller_fd_set of a poller_fd on a descriptor that never becomes ready.
EpSetQuiet ==
    /\ EpUserCode
    /\ equiet < MaxQuiet
    /\ poller_ensure_space
    /\ equiet' = equiet + 1
    /\ UNCHANGED <<eset, erevents, erevents_len, ei, epc, ereleased>>

\* poller_remove_from_dispatch for descriptor number fd: the entry bsearch
\* returns is marked and made to point into the dummy array of now.
poller_remove_from_dispatch_grown(fd) ==
    IF erevents_len = 0 THEN UNCHANGED <<erevents, ereleased>>
    ELSE \E r \in bsearch_epoll(fd, erevents, 0, erevents_len) :
             /\ ereleased' = (ereleased \/ r.released)
             /\ erevents' =
                    IF r.at = -1 THEN erevents
                    ELSE [erevents EXCEPT ![r.at + 1] =
                             [fd |-> fd, live |-> FALSE, dummy |-> edummy]]

\* poller_fd_reset of a registered poller_fd the model follows.
EpReset(f) ==
    /\ EpUserCode
    /\ f \in eset
    /\ poller_remove_from_dispatch_grown(f)
    /\ eset' = eset \ {f}
    /\ UNCHANGED <<ealloc, equiet, edummy, erevents_len, ei, epc>>

\* poller_fd_reset of one on a quiet descriptor, whose number is above the
\* others.
EpResetQuiet ==
    /\ EpUserCode
    /\ equiet > 0
    /\ poller_remove_from_dispatch_grown(NFds + 1)
    /\ equiet' = equiet - 1
    /\ UNCHANGED <<ealloc, eset, edummy, erevents_len, ei, epc>>

\* epoll_wait returns events of registered descriptors, qsort orders them,
\* and poller_common_dispatch runs its callbacks.
EpWait ==
    /\ epc = "idle"
    /\ \E ready \in SUBSET eset :
           /\ ready # {}
           /\ erevents' = [i \in 1..Cardinality(ready) |->
                  [fd    |-> CHOOSE f \in ready :
                                Cardinality({g \in ready : g < f}) = i - 1,
                   live  |-> TRUE,
                   dummy |-> -1]]
           /\ erevents_len' = Cardinality(ready)
    /\ ei' = 0
    /\ epc' = "cb"
    /\ UNCHANGED <<ealloc, eset, equiet, edummy, ereleased>>

\* The callback returns to poller_run.
EpReturn ==
    /\ epc = "cb"
    /\ epc' = "loop"
    /\ UNCHANGED <<ealloc, eset, equiet, edummy, erevents, erevents_len, ei,
                   ereleased>>

\* One turn of the loop over the batch: a marked entry is passed over; of
\* another, hard_assert (fd->index != -1), then the dispatcher.
EpStep ==
    /\ epc = "loop"
    /\ ei < erevents_len
    /\ ei' = ei + 1
    /\ LET e == erevents[ei + 1]
       IN  epc' = IF ~e.live THEN "loop"
                  ELSE IF e.fd \in eset THEN "cb" ELSE "abort"
    /\ UNCHANGED <<ealloc, eset, equiet, edummy, erevents, erevents_len,
                   ereleased>>

\* self->revents_len = 0;
EpEnd ==
    /\ epc = "loop"
    /\ ei = erevents_len
    /\ erevents_len' = 0
    /\ erevents' = <<>>
    /\ ei' = 0
    /\ epc' = "idle"
    /\ UNCHANGED <<ealloc, eset, equiet, edummy, ereleased>>

EpInit ==
    /\ ealloc = POLLER_MIN_ALLOC
    /\ eset = {}
    /\ equiet = 0
    /\ edummy = 0
    /\ erevents = <<>>
    /\ erevents_len = 0
    /\ ei = 0
    /\ epc = "idle"
    /\ ereleased = FALSE

EpNext ==
    \/ \E f \in Fds : EpSet(f) /\ EpFrame
    \/ EpSetQuiet /\ EpFrame
    \/ \E f \in Fds : EpReset(f) /\ EpFrame
    \/ EpResetQuiet /\ EpFrame
    \/ EpWait /\ EpFrame
    \/ EpReturn /\ EpFrame
    \/ EpStep /\ EpFrame
    \/ EpEnd /\ EpFrame

\* ------------------------------------------------------ async manager ---

\* LIST_PREPEND, LIST_UNLINK on a list kept head first.
LIST_PREPEND(list, j) == <<j>> \o list

LIST_UNLINK(list, j) == SelectSeq(list, LAMBDA x : x # j)

InList(list, j) == \E i \in 1..Len(list) : list[i] = j

\* A counter of the model that only tells 0, 1 and "more".
Bump(n) == IF n >= 2 THEN 2 ELSE n + 1

\* pthread_cancel: a request a live thread has not begun to act upon.
pthread_cancel(cp, j) ==
    IF wpc[j] \in {"execute", "lock", "broadcast", "write"} /\ cp[j] = "no"
    THEN [cp EXCEPT ![j] = "pending"] ELSE cp

\* async_run whose failure path leaves the job in running.
AsyncRunQueues_keep(ok, j, run, del) ==
    IF ok THEN [running |-> LIST_PREPEND(run, j), delayed |-> del]
    ELSE [running |-> LIST_PREPEND(run, j), delayed |-> LIST_PREPEND(del, j)]

\* The queues async_run leaves: the job is put in running before
\* pthread_create, and moved to delayed when that fails with EAGAIN.
AsyncRunQueues(ok, j, run, del) ==
    IF ok THEN [running |-> LIST_PREPEND(run, j), delayed |-> del]
    ELSE [running |-> LIST_UNLINK(LIST_PREPEND(run, j), j),
          delayed |-> LIST_PREPEND(del, j)]

\* async_run (self) on the delayed queue `del'; ok tells whether
\* pthread_create succeeds. The thread it creates begins in execute.
async_run(j, ok, del) ==
    /\ mutex = 0
    /\ running' = AsyncRunQueues(ok, j, running, del).running
    /\ delayed' = AsyncRunQueues(ok, j, running, del).delayed
    /\ IF ok
       THEN /\ started' = [started EXCEPT ![j] = TRUE]
            /\ wpc' = [wpc EXCEPT ![j] = "execute"]
            /\ nexec' = [nexec EXCEPT ![j] = Bump(@)]
            /\ UNCHANGED nfail
       ELSE /\ nfail' = [nfail EXCEPT ![j] = 1]
            /\ UNCHANGED <<started, wpc, nexec>>

\* The loop thread runs the program's own code: between the manager's
\* calls, or in a dispatcher.
AsyncUserCode == mpc \in {"idle", "cb"}

\* The program creates a job and starts it (async_getaddrinfo and the like
\* end in async_run). Jobs are taken in order.
Submit(j, ok) ==
    /\ AsyncUserCode
    /\ life[j] = "new"
    /\ \A k \in Jobs : k < j => life[k] # "new"
    /\ life' = [life EXCEPT ![j] = "submitted"]
    /\ async_run(j, ok, delayed)
    /\ UNCHANGED <<finished, cancelled, cpend, mutex, woken, pipe, mpc, iter,
                   teardown, ndisp, ndestroy, returned, begins, cancelAt, tdDisp, waited, tdQueue>>

\* The queue a job is in.
QueueOf(j) ==
    IF InList(running, j) THEN "running"
    ELSE IF InList(finished, j) THEN "finished"
    ELSE IF InList(delayed, j) THEN "delayed"
    ELSE "none"

\* async_cancel (self): after the job was submitted and before its results
\* have been dispatched.
async_cancel(j) ==
    /\ AsyncUserCode
    /\ life[j] = "submitted"
    /\ j # iter
    /\ cpend' = IF started[j] THEN pthread_cancel(cpend, j) ELSE cpend
    /\ cancelled' = [cancelled EXCEPT ![j] = TRUE]
    /\ cancelAt' = [cancelAt EXCEPT ![j] = IF @ = "none" THEN QueueOf(j) ELSE @]
    /\ UNCHANGED <<running, finished, delayed, life, started, wpc, mutex,
                   woken, pipe, mpc, iter, teardown, ndisp, ndestroy, nexec,
                   nfail, returned, begins, tdDisp, waited, tdQueue>>

\* --- the worker thread of job j: async_routine

\* self->execute (self) returns.
WorkerReturn(j) ==
    /\ wpc[j] = "execute"
    /\ wpc' = [wpc EXCEPT ![j] = "lock"]
    /\ returned' = [returned EXCEPT ![j] = TRUE]
    /\ UNCHANGED <<running, finished, delayed, life, started, cancelled,
                   cpend, mutex, woken, pipe, mpc, iter, teardown, ndisp,
                   ndestroy, nexec, nfail, begins, cancelAt, tdDisp,
                   waited, tdQueue>>

\* execute is in a cancellation point with a request pending: the thread
\* acts upon it and runs the cleanup handler.
WorkerCancelled(j) ==
    /\ wpc[j] = "execute"
    /\ cpend[j] = "pending"
    /\ wpc' = [wpc EXCEPT ![j] = "lock"]
    /\ cpend' = [cpend EXCEPT ![j] = "acting"]
    /\ UNCHANGED <<running, finished, delayed, life, started, cancelled,
                   mutex, woken, pipe, mpc, iter, teardown, ndisp, ndestroy,
                   nexec, nfail, returned, begins, cancelAt, tdDisp,
                   waited, tdQueue>>

\* async_cleanup up to pthread_mutex_unlock: with the lock, the job goes
\* from running to finished.
WorkerMove(j) ==
    /\ wpc[j] = "lock"
    /\ mutex = 0
    /\ running' = LIST_UNLINK(running, j)
    /\ finished' = LIST_PREPEND(finished, j)
    /\ wpc' = [wpc EXCEPT ![j] = "broadcast"]
    /\ begins' = [begins EXCEPT ![j] = 0]
    /\ UNCHANGED <<delayed, life, started, cancelled, cpend, mutex, woken,
                   pipe, mpc, iter, teardown, ndisp, ndestroy, nexec, nfail,
                   returned, cancelAt, tdDisp, waited, tdQueue>>

\* A broadcast that wakes nobody.
pthread_cond_broadcast_lost == woken

\* pthread_cond_broadcast (&finished_cond): wakes the thread waiting on it,
\* and is lost when none waits.
pthread_cond_broadcast == IF mpc = "ca_wait" THEN TRUE ELSE woken

\* async_cleanup: pthread_cond_broadcast
WorkerBroadcast(j) ==
    /\ wpc[j] = "broadcast"
    /\ woken' = pthread_cond_broadcast
    /\ wpc' = [wpc EXCEPT ![j] = "write"]
    /\ UNCHANGED <<running, finished, delayed, life, started, cancelled,
                   cpend, mutex, pipe, mpc, iter, teardown, ndisp, ndestroy,
                   nexec, nfail, returned, begins, cancelAt, tdDisp,
                   waited, tdQueue>>

\* async_cleanup: write (finished_pipe[1], "", 1), then the thread ends.
\* write is a cancellation point: with a request pending (the handler was run
\* by pthread_cleanup_pop, not by a cancellation) the byte may not be written.
WorkerWrite(j) ==
    /\ wpc[j] = "write"
    /\ \E written \in BOOLEAN :
           /\ ~written => cpend[j] = "pending"
           /\ pipe' = (pipe \/ written)
    /\ wpc' = [wpc EXCEPT ![j] = "exited"]
    /\ UNCHANGED <<running, finished, delayed, life, started, cancelled,
                   cpend, mutex, woken, mpc, iter, teardown, ndisp, ndestroy,
                   nexec, nfail, returned, begins, cancelAt, tdDisp,
                   waited, tdQueue>>

\* --- the loop thread: async_manager_dispatch

\* iter->dispatcher is invoked whatever iter->cancelled says.
ShouldDispatch_always(j) == TRUE

\* iter->dispatcher && !iter->cancelled (every job has a dispatcher)
ShouldDispatch(j) == ~cancelled[j]

\* The dispatch loop handles one job in a call.
AfterDestroy_once == "delayed"

\* while ((iter = async_manager_dispatch_fetch (self))): after a job the
\* loop fetches again.
AfterDestroy == "fetch"

\* iter->destroy (iter): the job is released, and what its fields held is
\* gone with it. What the model notes of its execute is kept through
\* teardown only.
Destroy(j) ==
    /\ ndestroy' = [ndestroy EXCEPT ![j] = Bump(@)]
    /\ life' = [life EXCEPT ![j] = "destroyed"]
    /\ started' = [started EXCEPT ![j] = FALSE]
    /\ nfail' = [nfail EXCEPT ![j] = 0]
    /\ returned' = [returned EXCEPT ![j] = teardown /\ @]
    /\ begins' = [begins EXCEPT ![j] = 0]

\* async_manager_dispatch is entered, by the program's loop or at the end of
\* async_manager_cancel_all, and empties the signalling pipe.
DispatchBegin ==
    /\ \/ mpc = "idle" /\ ~teardown
       \/ mpc = "ca_dispatch"
    /\ pipe' = FALSE
    /\ begins' = [j \in Jobs |-> IF InList(finished, j) THEN Bump(begins[j])
                                 ELSE begins[j]]
    /\ mpc' = "fetch"
    /\ UNCHANGED <<running, finished, delayed, life, started, cancelled, wpc,
                   cpend, mutex, woken, iter, teardown, ndisp, ndestroy,
                   nexec, nfail, returned, cancelAt, tdDisp, waited, tdQueue>>

\* async_manager_dispatch_fetch: the head of finished, under the lock.
DispatchFetch ==
    /\ mpc = "fetch"
    /\ mutex = 0
    /\ IF finished = <<>>
       THEN /\ mpc' = "delayed"
            /\ UNCHANGED <<finished, iter>>
       ELSE /\ iter' = Head(finished)
            /\ finished' = LIST_UNLINK(finished, Head(finished))
            /\ mpc' = "join"
    /\ UNCHANGED <<running, delayed, life, started, cancelled, wpc, cpend,
                   mutex, woken, pipe, teardown, ndisp, ndestroy, nexec,
                   nfail, returned, begins, cancelAt, tdDisp, waited, tdQueue>>

\* pthread_join returns once the worker has ended; then the dispatcher is
\* invoked, or, for a cancelled job, destroy at once.
DispatchJoin ==
    /\ mpc = "join"
    /\ wpc[iter] = "exited"
    /\ wpc' = [wpc EXCEPT ![iter] = "none"]
    /\ cpend' = [cpend EXCEPT ![iter] = "no"]
    /\ IF ShouldDispatch(iter)
       THEN /\ ndisp' = [ndisp EXCEPT ![iter] = Bump(@)]
            /\ tdDisp' = (tdDisp \/ teardown)
            /\ mpc' = "cb"
            /\ UNCHANGED <<iter, life, ndestroy, begins, started, returned,
                           nfail>>
       ELSE /\ Destroy(iter)
            /\ iter' = 0
            /\ mpc' = AfterDestroy
            /\ UNCHANGED <<ndisp, tdDisp>>
    /\ UNCHANGED <<running, finished, delayed, cancelled, mutex, woken, pipe,
                   teardown, nexec, cancelAt, waited, tdQueue>>

\* The dispatcher returns and iter->destroy (iter) follows.
DispatchDestroy ==
    /\ mpc = "cb"
    /\ Destroy(iter)
    /\ iter' = 0
    /\ mpc' = AfterDestroy
    /\ UNCHANGED <<running, finished, delayed, cancelled, wpc, cpend, mutex,
                   woken, pipe, teardown, ndisp, nexec, cancelAt, tdDisp,
                   waited, tdQueue>>

\* Where async_manager_dispatch returns to.
DispatchReturn == IF teardown THEN "freed" ELSE "idle"

\* A retry pass that ends after its first job whatever async_run returned.
AfterRun_stop(ok) == DispatchReturn

\* else if (!async_run (iter)) break: the pass goes on after a job that was
\* started and ends at one that was not.
AfterRun(ok) == IF ok THEN "delayed" ELSE DispatchReturn

\* One turn of LIST_FOR_EACH over delayed (the next link is read before the
\* body): the job is unlinked and destroyed when cancelled, started again
\* otherwise, and the loop breaks at the first failure.
DispatchDelayed ==
    /\ mpc = "delayed"
    /\ IF delayed = <<>>
       THEN /\ mpc' = DispatchReturn
            /\ UNCHANGED <<running, delayed, life, started, wpc, ndestroy,
                           nexec, nfail, returned, begins>>
       ELSE LET j == Head(delayed)
                rest == LIST_UNLINK(delayed, j)
            IN  IF cancelled[j]
                THEN /\ delayed' = rest
                     /\ Destroy(j)
                     /\ UNCHANGED <<running, wpc, nexec, mpc>>
                ELSE \E ok \in BOOLEAN :
                         /\ async_run(j, ok, rest)
                         /\ mpc' = AfterRun(ok)
                         /\ UNCHANGED <<life, ndestroy, returned, begins>>
    /\ UNCHANGED <<finished, cancelled, cpend, mutex, woken, pipe, iter,
                   teardown, ndisp, cancelAt, tdDisp, waited, tdQueue>>

\* --- the loop thread: async_manager_cancel_all (async_manager_free)

\* Only the finished jobs are marked.
MarkCancelled_finished(c) ==
    [j \in Jobs |-> c[j] \/ InList(finished, j)]

\* Everything in finished and in delayed is marked cancelled.
MarkCancelled(c) ==
    [j \in Jobs |-> c[j] \/ InList(finished, j) \/ InList(delayed, j)]

\* The lock is taken and every running job's worker is cancelled.
CancelAllBegin ==
    /\ mpc = "idle"
    /\ ~teardown
    /\ mutex = 0
    /\ mutex' = -1
    /\ teardown' = TRUE
    /\ cpend' = [j \in Jobs |-> IF InList(running, j)
                                THEN pthread_cancel(cpend, j)[j] ELSE cpend[j]]
    /\ tdQueue' = [j \in Jobs |-> QueueOf(j)]
    /\ mpc' = "ca_check"
    /\ UNCHANGED <<running, finished, delayed, life, started, cancelled, wpc,
                   woken, pipe, iter, ndisp, ndestroy, nexec, nfail, returned,
                   begins, cancelAt, tdDisp, waited>>

\* while (self->running) pthread_cond_wait: the wait releases the lock; when
\* nothing runs any more the rest is marked and the lock released.
CancelAllCheck ==
    /\ mpc = "ca_check"
    /\ mutex' = 0
    /\ IF running # <<>>
       THEN /\ mpc' = "ca_wait"
            /\ woken' = FALSE
            /\ waited' = TRUE
            /\ UNCHANGED cancelled
       ELSE /\ mpc' = "ca_dispatch"
            /\ cancelled' = MarkCancelled(cancelled)
            /\ UNCHANGED <<woken, waited>>
    /\ UNCHANGED <<running, finished, delayed, life, started, wpc, cpend,
                   pipe, iter, teardown, ndisp, ndestroy, nexec, nfail,
                   returned, begins, cancelAt, tdDisp, tdQueue>>

\* pthread_cond_wait may return with no broadcast.
CancelAllSpurious ==
    /\ mpc = "ca_wait"
    /\ ~woken
    /\ woken' = TRUE
    /\ UNCHANGED <<running, finished, delayed, life, started, cancelled, wpc,
                   cpend, mutex, pipe, mpc, iter, teardown, ndisp, ndestroy,
                   nexec, nfail, returned, begins, cancelAt, tdDisp, waited, tdQueue>>

\* pthread_cond_wait returns: woken, and with the lock again.
CancelAllWake ==
    /\ mpc = "ca_wait"
    /\ woken
    /\ mutex = 0
    /\ mutex' = -1
    /\ woken' = FALSE
    /\ mpc' = "ca_check"
    /\ UNCHANGED <<running, finished, delayed, life, started, cancelled, wpc,
                   cpend, pipe, iter, teardown, ndisp, ndestroy, nexec, nfail,
                   returned, begins, cancelAt, tdDisp, waited, tdQueue>>

AsyncInit ==
    /\ running = <<>>
    /\ finished = <<>>
    /\ delayed = <<>>
    /\ life = [j \in Jobs |-> "new"]
    /\ started = [j \in Jobs |-> FALSE]
    /\ cancelled = [j \in Jobs |-> FALSE]
    /\ wpc = [j \in Jobs |-> "none"]
    /\ cpend = [j \in Jobs |-> "no"]
    /\ mutex = 0
    /\ woken = FALSE
    /\ pipe = FALSE
    /\ mpc = "idle"
    /\ iter = 0
    /\ teardown = FALSE
    /\ ndisp = [j \in Jobs |-> 0]
    /\ ndestroy = [j \in Jobs |-> 0]
    /\ nexec = [j \in Jobs |-> 0]
    /\ nfail = [j \in Jobs |-> 0]
    /\ returned = [j \in Jobs |-> FALSE]
    /\ begins = [j \in Jobs |-> 0]
    /\ cancelAt = [j \in Jobs |-> "none"]
    /\ tdDisp = FALSE
    /\ waited = FALSE
    /\ tdQueue = [j \in Jobs |-> "none"]

\* The manager shares no state with the other parts.
AsyncFrame ==
    UNCHANGED <<timerVars, fdVars, connVars, idleVars, waitVars,
                fireVars, lockVars, advVars, passVars, epVars>>

\* The steps of the loop thread inside the manager's calls.
ManagerStep ==
    \/ DispatchBegin /\ AsyncFrame
    \/ DispatchFetch /\ AsyncFrame
    \/ DispatchJoin /\ AsyncFrame
    \/ DispatchDestroy /\ AsyncFrame
    \/ DispatchDelayed /\ AsyncFrame
    \/ CancelAllCheck /\ AsyncFrame
    \/ CancelAllWake /\ AsyncFrame

AsyncNext ==
    \/ \E j \in Jobs, ok \in BOOLEAN : Submit(j, ok) /\ AsyncFrame
    \/ \E j \in Jobs : async_cancel(j) /\ AsyncFrame
    \/ \E j \in Jobs : WorkerReturn(j) /\ AsyncFrame
    \/ \E j \in Jobs : WorkerCancelled(j) /\ AsyncFrame
    \/ \E j \in Jobs : WorkerMove(j) /\ AsyncFrame
    \/ \E j \in Jobs : WorkerBroadcast(j) /\ AsyncFrame
    \/ \E j \in Jobs : WorkerWrite(j) /\ AsyncFrame
    \/ CancelAllBegin /\ AsyncFrame
    \/ CancelAllSpurious /\ AsyncFrame
    \/ ManagerStep

\* The timeout of the wait.

INT_MAX == 2147483647

\* The one second after which delayed jobs are retried.
RetryTimeout == 1000

MIN(a, b) == IF a < b THEN a ELSE b

\* poller_timers_get_poll_timeout: -1 with no timer, else the time left to
\* the root's expiry, within 0..INT_MAX.
poller_timers_get_poll_timeout ==
    IF Len(heap) = 0 THEN -1
    ELSE LET timeout == when[heap[1]] - clock
         IN  IF timeout <= 0 THEN 0
             ELSE IF timeout > INT_MAX THEN INT_MAX
             ELSE timeout

\* The idle list is not looked at.
poller_common_get_timeout_timers ==
    LET timeout == poller_timers_get_poll_timeout
    IN  IF delayed # <<>> THEN MIN(timeout, RetryTimeout) ELSE timeout

\* poller_common_get_timeout
poller_common_get_timeout ==
    IF ihead # 0 THEN 0
    ELSE LET timeout == poller_timers_get_poll_timeout
         IN  IF delayed # <<>> THEN MIN(timeout, RetryTimeout) ELSE timeout

\* The wait of poller_run with no descriptor but finished_pipe[0]: it returns
\* when the pipe is readable, or when its timeout, which is not -1 then,
\* runs out.
PollerWaitReturns == pipe \/ poller_common_get_timeout # -1

\* The steps of a loop thread that enters async_manager_dispatch from
\* poller_run only, after the wait has returned.
LoopStep ==
    \/ (mpc = "ca_dispatch" \/ PollerWaitReturns) /\ DispatchBegin /\ AsyncFrame
    \/ DispatchFetch /\ AsyncFrame
    \/ DispatchJoin /\ AsyncFrame
    \/ DispatchDestroy /\ AsyncFrame
    \/ DispatchDelayed /\ AsyncFrame
    \/ CancelAllCheck /\ AsyncFrame
    \/ CancelAllWake /\ AsyncFrame

AsyncLoopNext ==
    \/ \E j \in Jobs, ok \in BOOLEAN : Submit(j, ok) /\ AsyncFrame
    \/ \E j \in Jobs : async_cancel(j) /\ AsyncFrame
    \/ \E j \in Jobs : WorkerReturn(j) /\ AsyncFrame
    \/ \E j \in Jobs : WorkerCancelled(j) /\ AsyncFrame
    \/ \E j \in Jobs : WorkerMove(j) /\ AsyncFrame
    \/ \E j \in Jobs : WorkerBroadcast(j) /\ AsyncFrame
    \/ \E j \in Jobs : WorkerWrite(j) /\ AsyncFrame
    \/ CancelAllBegin /\ AsyncFrame
    \/ CancelAllSpurious /\ AsyncFrame
    \/ LoopStep

\* --- the manager's lock: the same functions, statement by statement

\* The loop thread (0), and the worker thread of every job.
Threads == {0} \cup Jobs

\* A statement: its kind, and the queue, the job and the detail it is about.
Stmt(kind, queue, j, x) == <<kind, queue, j, x>>

pthread_mutex_lock == Stmt("lock", "", 0, "")
pthread_mutex_unlock == Stmt("unlock", "", 0, "")

\* LIST_PREPEND or LIST_UNLINK on a queue, after which the job is in `to'.
Mutate(queue, j, to) == Stmt("mutate", queue, j, to)

\* async_run: the job is linked into running under the lock; when
\* pthread_create fails it is unlinked under the lock and put on delayed
\* after the unlock.
async_run_code(j, ok) ==
    <<pthread_mutex_lock, Mutate("running", j, "running"),
      pthread_mutex_unlock,
      Stmt("pthread_create", "", j, IF ok THEN "ok" ELSE "EAGAIN")>>
    \o (IF ok THEN <<>>
        ELSE <<pthread_mutex_lock, Mutate("running", j, "out"),
               pthread_mutex_unlock, Mutate("delayed", j, "delayed")>>)

\* The job is moved from running to finished with no lock taken.
async_cleanup_code_unlocked(j) ==
    <<Mutate("running", j, "out"), Mutate("finished", j, "finished")>>

\* async_cleanup
async_cleanup_code(j) ==
    <<pthread_mutex_lock, Mutate("running", j, "out"),
      Mutate("finished", j, "finished"), pthread_mutex_unlock,
      Stmt("pthread_cond_broadcast", "", j, ""), Stmt("write", "", j, "")>>

\* async_routine: execute, then the cleanup handler.
async_routine_code(j) == <<Stmt("execute", "", j, "")>> \o async_cleanup_code(j)

\* async_manager_dispatch: fetch and dispatch until finished is empty, then
\* the loop over delayed.
async_manager_dispatch_code ==
    <<pthread_mutex_lock, Stmt("fetch", "", 0, ""), Stmt("delayed", "", 0, "")>>

\* The lock is kept until the job has been dispatched and destroyed.
async_manager_dispatch_fetch_code_held ==
    IF \E j \in Jobs : lkqueue[j] = "finished"
    THEN LET j == CHOOSE k \in Jobs : lkqueue[k] = "finished"
         IN  <<Mutate("finished", j, "out"), Stmt("pthread_join", "", j, "")>>
             \o (IF j \in lkcancelled THEN <<>>
                 ELSE <<Stmt("dispatcher", "", j, "")>>)
             \o <<Stmt("destroy", "", j, ""), pthread_mutex_unlock,
                  pthread_mutex_lock, Stmt("fetch", "", 0, "")>>
    ELSE <<pthread_mutex_unlock>>

\* async_manager_dispatch_fetch from its test of self->finished on, and what
\* the caller's loop does with the result before it fetches again; only the
\* loop thread, which is here, sets the cancelled flag, so that the test of
\* it can be made at once.
async_manager_dispatch_fetch_code ==
    IF \E j \in Jobs : lkqueue[j] = "finished"
    THEN LET j == CHOOSE k \in Jobs : lkqueue[k] = "finished"
         IN  <<Mutate("finished", j, "out"), pthread_mutex_unlock,
               Stmt("pthread_join", "", j, "")>>
             \o (IF j \in lkcancelled THEN <<>>
                 ELSE <<Stmt("dispatcher", "", j, "")>>)
             \o <<Stmt("destroy", "", j, ""),
                  pthread_mutex_lock, Stmt("fetch", "", 0, "")>>
    ELSE <<pthread_mutex_unlock>>

\* One turn of the loop over delayed: LIST_UNLINK, then async_run, and the
\* loop goes on when that succeeded.
async_manager_dispatch_delayed_code(j, ok) ==
    IF j \in lkcancelled
    THEN <<Mutate("delayed", j, "out"), Stmt("destroy", "", j, ""),
           Stmt("delayed", "", 0, "")>>
    ELSE <<Mutate("delayed", j, "out")>> \o async_run_code(j, ok)
         \o (IF ok THEN <<Stmt("delayed", "", 0, "")>> ELSE <<>>)

\* async_manager_cancel_all: the lock is held but for the waits on
\* finished_cond, and released before async_manager_dispatch; the manager
\* is freed afterwards.
async_manager_cancel_all_code ==
    <<pthread_mutex_lock, Stmt("cancel_running", "", 0, ""),
      Stmt("pthread_cond_wait", "", 0, ""),
      Stmt("cancel_queued", "", 0, ""), pthread_mutex_unlock>>
    \o async_manager_dispatch_code \o <<Stmt("freed", "", 0, "")>>

\* The loop thread is in a dispatcher.
LockInDispatcher ==
    IF lkcode[0] = <<>> THEN FALSE ELSE Head(lkcode[0])[1] = "dispatcher"

\* The loop thread is in the program's code: outside the manager's calls, or
\* in a dispatcher.
LockUserCode == lkcode[0] = <<>> \/ LockInDispatcher

\* The program starts a job.
LockSubmit(j, ok) ==
    /\ LockUserCode
    /\ lkqueue[j] = "new"
    /\ \A k \in Jobs : k < j => lkqueue[k] # "new"
    /\ lkqueue' = [lkqueue EXCEPT ![j] = "out"]
    /\ lkcode' = [lkcode EXCEPT ![0] = async_run_code(j, ok) \o @]
    /\ lkcalls' = lkcalls \cup {<<"async_run", j, LockInDispatcher>>}
    /\ UNCHANGED <<lkholder, lkmut, lkrec, lkcancelled>>

\* The program cancels a job that is started and not yet dispatched.
LockCancel(j) ==
    /\ LockUserCode
    /\ lkqueue[j] \in {"running", "finished", "delayed"}
    /\ j \notin lkcancelled
    /\ lkcode' = [lkcode EXCEPT ![0] = <<Stmt("async_cancel", "", j, "")>> \o @]
    /\ UNCHANGED <<lkholder, lkqueue, lkmut, lkrec, lkcalls, lkcancelled>>

\* poller_run comes to async_manager_dispatch.
LockDispatch ==
    /\ lkcode[0] = <<>>
    /\ lkcode' = [lkcode EXCEPT ![0] = async_manager_dispatch_code]
    /\ UNCHANGED <<lkholder, lkqueue, lkmut, lkrec, lkcalls, lkcancelled>>

\* The program frees the manager.
LockCancelAll ==
    /\ lkcode[0] = <<>>
    /\ lkcode' = [lkcode EXCEPT ![0] = async_manager_cancel_all_code]
    /\ UNCHANGED <<lkholder, lkqueue, lkmut, lkrec, lkcalls, lkcancelled>>

\* A thread executes its next statement.
LockStep(th) ==
    /\ lkcode[th] # <<>>
    /\ LET stmt == Head(lkcode[th])
           kind == stmt[1]
           rest == Tail(lkcode[th])
           class == IF th = 0 THEN "loop" ELSE "worker"
       IN  \/ /\ kind = "lock"
              /\ lkholder \in {-1, th}
              /\ lkrec' = (lkrec \/ lkholder = th)
              /\ lkholder' = th
              /\ lkcode' = [lkcode EXCEPT ![th] = rest]
              /\ UNCHANGED <<lkqueue, lkmut, lkcalls, lkcancelled>>
           \/ /\ kind = "unlock"
              /\ lkholder' = -1
              /\ lkcode' = [lkcode EXCEPT ![th] = rest]
              /\ UNCHANGED <<lkqueue, lkmut, lkrec, lkcalls, lkcancelled>>
           \/ /\ kind = "mutate"
              /\ lkqueue' = [lkqueue EXCEPT ![stmt[3]] = stmt[4]]
              /\ lkmut' = lkmut \cup {<<stmt[2], class, lkholder = th>>}
              /\ lkcode' = [lkcode EXCEPT ![th] = rest]
              /\ UNCHANGED <<lkholder, lkrec, lkcalls, lkcancelled>>
           \/ /\ kind = "pthread_create"
              /\ lkcode' = IF stmt[4] = "ok"
                           THEN [lkcode EXCEPT ![th] = rest,
                                   ![stmt[3]] = async_routine_code(stmt[3])]
                           ELSE [lkcode EXCEPT ![th] = rest]
              /\ UNCHANGED <<lkholder, lkqueue, lkmut, lkrec, lkcalls, lkcancelled>>
           \/ /\ kind \in {"execute", "dispatcher", "pthread_cond_broadcast",
                          "write"}
              /\ lkcode' = [lkcode EXCEPT ![th] = rest]
              /\ lkcalls' = lkcalls \cup {<<kind, stmt[3], lkholder = th>>}
              /\ UNCHANGED <<lkholder, lkqueue, lkmut, lkrec, lkcancelled>>
           \/ /\ kind = "destroy"
              /\ lkcode' = [lkcode EXCEPT ![th] = rest]
              /\ lkqueue' = [lkqueue EXCEPT ![stmt[3]] = "destroyed"]
              /\ lkcalls' = lkcalls \cup {<<kind, stmt[3], lkholder = th>>}
              /\ UNCHANGED <<lkholder, lkmut, lkrec, lkcancelled>>
           \/ /\ kind = "async_cancel"
              /\ lkcode' = [lkcode EXCEPT ![th] = rest,
                                         ![stmt[3]] =
                               IF @ # <<>> /\ Head(@)[1] = "execute"
                               THEN Tail(@) ELSE @]
              /\ lkcancelled' = lkcancelled \cup {stmt[3]}
              /\ lkcalls' = lkcalls \cup {<<kind, stmt[3], lkholder = th>>}
              /\ UNCHANGED <<lkholder, lkqueue, lkmut, lkrec>>
           \/ /\ kind = "cancel_running"
              /\ lkcode' = [t \in Threads |->
                               IF t = th THEN rest
                               ELSE IF lkcode[t] # <<>>
                                       /\ Head(lkcode[t])[1] = "execute"
                                    THEN Tail(lkcode[t]) ELSE lkcode[t]]
              /\ UNCHANGED <<lkholder, lkqueue, lkmut, lkrec, lkcalls,
                             lkcancelled>>
           \/ /\ kind = "cancel_queued"
              /\ lkcode' = [lkcode EXCEPT ![th] = rest]
              /\ lkcancelled' = lkcancelled \cup
                     {j \in Jobs : lkqueue[j] \in {"finished", "delayed"}}
              /\ UNCHANGED <<lkholder, lkqueue, lkmut, lkrec, lkcalls>>
           \/ /\ kind = "pthread_join"
              /\ lkcode[stmt[3]] = <<>>
              /\ lkcode' = [lkcode EXCEPT ![th] = rest]
              /\ lkcalls' = lkcalls \cup {<<kind, stmt[3], lkholder = th>>}
              /\ UNCHANGED <<lkholder, lkqueue, lkmut, lkrec, lkcancelled>>
           \/ /\ kind = "fetch"
              /\ lkcode' = [lkcode EXCEPT ![th] =
                                async_manager_dispatch_fetch_code \o rest]
              /\ UNCHANGED <<lkholder, lkqueue, lkmut, lkrec, lkcalls, lkcancelled>>
           \/ /\ kind = "delayed"
              /\ IF \E j \in Jobs : lkqueue[j] = "delayed"
                 THEN \E ok \in BOOLEAN :
                          lkcode' = [lkcode EXCEPT ![th] =
                              async_manager_dispatch_delayed_code(
                                  CHOOSE j \in Jobs : lkqueue[j] = "delayed",
                                  ok) \o rest]
                 ELSE lkcode' = [lkcode EXCEPT ![th] = rest]
              /\ UNCHANGED <<lkholder, lkqueue, lkmut, lkrec, lkcalls, lkcancelled>>
           \/ /\ kind = "pthread_cond_wait"
              /\ IF \E j \in Jobs : lkqueue[j] = "running"
                 THEN /\ lkholder' = -1
                      /\ lkcode' = [lkcode EXCEPT ![th] =
                             <<pthread_mutex_lock>> \o lkcode[th]]
                 ELSE /\ lkcode' = [lkcode EXCEPT ![th] = rest]
                      /\ UNCHANGED lkholder
              /\ UNCHANGED <<lkqueue, lkmut, lkrec, lkcalls, lkcancelled>>

LockInit ==
    /\ lkholder = -1
    /\ lkcode = [th \in Threads |-> <<>>]
    /\ lkqueue = [j \in Jobs |-> "new"]
    /\ lkmut = {}
    /\ lkrec = FALSE
    /\ lkcalls = {}
    /\ lkcancelled = {}

LockFrame ==
    UNCHANGED <<timerVars, fdVars, asyncVars, connVars, idleVars, waitVars,
                fireVars, advVars, passVars, epVars>>

LockNext ==
    \/ \E j \in Jobs, ok \in BOOLEAN : LockSubmit(j, ok) /\ LockFrame
    \/ \E j \in Jobs : LockCancel(j) /\ LockFrame
    \/ LockDispatch /\ LockFrame
    \/ LockCancelAll /\ LockFrame
    \/ \E th \in Threads : LockStep(th) /\ LockFrame

\* ---------------------------------------------------------- connector ---

\* The outcomes of one attempt of connector_step on an address: socket (2)
\* fails, connect (2) succeeds at once, is in progress, or fails at once.
Attempts == {"socket_failed", "connected", "in_progress", "connect_failed"}

\* connector_on_getaddrinfo steps whichever target has been resolved.
IsHead_any(t) == TRUE

\* self == self->connector->targets
IsHead(t) == targets # <<>> /\ Head(targets) = t

\* target->hostname: the string the target was added with.
hostname(t) == <<"hostname", t>>

\* getnameinfo with NI_NUMERICHOST on the current address of a target: the
\* numeric form of that address.
getnameinfo(t) == <<"numeric", t, tleft[t]>>

\* connector_notify_connecting: on_connecting is given the numeric address of
\* gai_iter, or the hostname when there is no gai_iter or getnameinfo fails.
connector_notify_connecting(target, gai_iter, err) ==
    /\ nconnecting' = [nconnecting EXCEPT ![target] = Bump(@)]
    /\ caddress' = IF gai_iter /\ ~err THEN getnameinfo(target)
                   ELSE hostname(target)

\* on_connected is given what getnameinfo makes of the address connected to.
connector_notify_connected_numeric ==
    /\ nconnected' = Bump(nconnected)
    /\ chost' = getnameinfo(Head(targets))

\* connector_notify_connected: on_connected is given self->targets->hostname.
connector_notify_connected ==
    /\ nconnected' = Bump(nconnected)
    /\ chost' = hostname(Head(targets))

\* on_error, invoked for the head target.
on_error ==
    nerror' = [nerror EXCEPT ![Head(targets)] = Bump(@)]

\* The target is freed with its resolution left to run.
connector_target_destroy_uncancelled(jobs, t) == jobs

\* connector_target_destroy, as to the resolution jobs: async_cancel of
\* getaddrinfo_event, when the target still has one.
connector_target_destroy(jobs, t) ==
    IF tstate[t] = "pending" THEN [jobs EXCEPT ![t] = "cancelled"] ELSE jobs

\* The head target is unlinked and destroyed whatever addresses it has left.
connector_prepare_next_drops ==
    LET target == Head(targets)
    IN  /\ targets' = Tail(targets)
        /\ tstate' = [tstate EXCEPT ![target] = "destroyed"]
        /\ tleft' = [tleft EXCEPT ![target] = 0]
        /\ texhausted' = [texhausted EXCEPT ![target] = TRUE]
        /\ gjob' = connector_target_destroy(gjob, target)

\* connector_prepare_next: the head target moves to its next address, and is
\* unlinked and destroyed when it has none.
connector_prepare_next ==
    LET target == Head(targets)
    IN  IF tleft[target] <= 1
        THEN /\ targets' = Tail(targets)
             /\ tstate' = [tstate EXCEPT ![target] = "destroyed"]
             /\ tleft' = [tleft EXCEPT ![target] = 0]
             /\ texhausted' = [texhausted EXCEPT ![target] = TRUE]
             /\ gjob' = connector_target_destroy(gjob, target)
        ELSE /\ tleft' = [tleft EXCEPT ![target] = @ - 1]
             /\ UNCHANGED <<targets, tstate, texhausted, gjob>>

\* The error is reported and the next address prepared, and that is all.
connector_handle_error_returns ==
    /\ on_error
    /\ connector_prepare_next
    /\ cpc' = "idle"

\* connector_handle_error: on_error, connector_prepare_next, and
\* connector_step again.
connector_handle_error ==
    /\ on_error
    /\ connector_prepare_next
    /\ cpc' = "step"

\* connector_add_target: the target is appended and its resolution
\* submitted. The program adds targets, in order, until the connector has
\* reported its outcome.
connector_add_target(t) ==
    /\ cpc = "idle"
    /\ ~cfreed
    /\ nconnected + nfailure = 0
    /\ tstate[t] = "new"
    /\ \A u \in Targets : u < t => tstate[u] # "new"
    /\ tstate' = [tstate EXCEPT ![t] = "pending"]
    /\ gjob' = [gjob EXCEPT ![t] = "running"]
    /\ targets' = Append(targets, t)
    /\ UNCHANGED <<tleft, csocket, cpc, cfreed, nconnected, nfailure,
                   nerror, nconnecting, caddress, chost, tres, texhausted,
                   cregistered>>

\* connector_on_getaddrinfo, the dispatcher of a target's resolution, which
\* async_manager_dispatch invokes for the jobs that are not cancelled, in any
\* order: with an error, or with n addresses. The user_data of a job whose
\* target has been destroyed points to freed memory: the call is recorded
\* and nothing is made of what it reads and writes there.
connector_on_getaddrinfo(t, err, n) ==
    /\ cpc = "idle"
    /\ gjob[t] = "running"
    /\ gjob' = [gjob EXCEPT ![t] = "done"]
    /\ tres' = Append(tres, <<t, IF err THEN "error" ELSE "results">>)
    /\ IF tstate[t] = "pending"
       THEN /\ tstate' = [tstate EXCEPT ![t] =
                              IF err THEN "failed" ELSE "resolved"]
            /\ tleft' = [tleft EXCEPT ![t] = IF err THEN 0 ELSE n]
            /\ cpc' = IF IsHead(t) THEN "step" ELSE "idle"
       ELSE UNCHANGED <<tstate, tleft, cpc>>
    /\ UNCHANGED <<targets, csocket, cfreed, nconnected, nfailure,
                   nerror, nconnecting, caddress, chost, texhausted,
                   cregistered>>

\* async_manager_dispatch comes to a resolution job that has been cancelled:
\* the job is destroyed and its dispatcher is not invoked.
connector_getaddrinfo_cancelled(t) ==
    /\ cpc = "idle"
    /\ gjob[t] = "cancelled"
    /\ gjob' = [gjob EXCEPT ![t] = "done"]
    /\ UNCHANGED <<targets, tstate, tleft, csocket, cpc, cfreed, nconnected,
                   nfailure, nerror, nconnecting, caddress, chost, tres,
                   texhausted, cregistered>>

\* on_failure also when the resolution of the head target has failed.
NoTarget_or_failed == targets = <<>> \/ tstate[Head(targets)] = "failed"

\* if (!target)
NoTarget == targets = <<>>

\* The socket is kept and connected_event is not set.
connector_step_in_progress_unset ==
    /\ csocket' = "connecting"
    /\ UNCHANGED cregistered

\* connector_step when connect (2) fails with EINPROGRESS: the socket is
\* kept in connector.socket and connected_event is set for POLLOUT.
connector_step_in_progress ==
    /\ csocket' = "connecting"
    /\ cregistered' = TRUE

\* connector_step, once: connector_check_target, then an attempt on the
\* head's current address; a failure leaves the step to be run again.
connector_step ==
    /\ cpc = "step"
    /\ IF NoTarget
       THEN /\ nfailure' = Bump(nfailure)
            /\ cpc' = "idle"
            /\ UNCHANGED <<targets, tstate, tleft, csocket, nconnected,
                           nerror, nconnecting, caddress, chost, texhausted,
                           cregistered, gjob>>
       ELSE IF tstate[Head(targets)] = "failed"
       THEN /\ connector_notify_connecting(Head(targets), FALSE, FALSE)
            /\ connector_handle_error
            /\ UNCHANGED <<csocket, nconnected, nfailure, chost,
                           cregistered>>
       ELSE IF tstate[Head(targets)] = "resolved"
       THEN \E outcome \in Attempts, err \in BOOLEAN :
                /\ connector_notify_connecting(Head(targets), TRUE, err)
                /\ IF outcome = "connected"
                   THEN /\ connector_notify_connected
                        /\ cpc' = "idle"
                        /\ UNCHANGED <<targets, tstate, tleft, csocket,
                                       nfailure, nerror, texhausted,
                                       cregistered, gjob>>
                   ELSE IF outcome = "in_progress"
                   THEN /\ connector_step_in_progress
                        /\ cpc' = "idle"
                        /\ UNCHANGED <<targets, tstate, tleft, nconnected,
                                       nfailure, nerror, chost, texhausted,
                                       gjob>>
                   ELSE /\ connector_handle_error
                        /\ UNCHANGED <<csocket, nconnected, nfailure, chost,
                                       cregistered>>
       ELSE /\ cpc' = "idle"
            /\ UNCHANGED <<targets, tstate, tleft, csocket, nconnected,
                           nfailure, nerror, nconnecting, caddress, chost,
                           texhausted, cregistered, gjob>>
    /\ UNCHANGED <<cfreed, tres>>

\* connector_on_ready, which the poller invokes while connected_event is
\* registered: SO_ERROR tells how the connect in progress has ended.
connector_on_ready(error) ==
    /\ cpc = "idle"
    /\ cregistered
    /\ cregistered' = FALSE
    /\ csocket' = "none"
    /\ IF error
       THEN /\ connector_handle_error
            /\ UNCHANGED <<nconnected, nfailure, chost>>
       ELSE /\ connector_notify_connected
            /\ UNCHANGED <<targets, tstate, tleft, cpc, nfailure, nerror,
                           texhausted, gjob>>
    /\ UNCHANGED <<cfreed, nconnecting, caddress, tres>>

\* connector_free, which the program calls from on_connected or on_failure
\* or at any time between two callbacks: connected_event is reset, the
\* socket closed if there is one, and the targets are destroyed.
connector_free ==
    /\ cpc = "idle"
    /\ ~cfreed
    /\ cfreed' = TRUE
    /\ cregistered' = FALSE
    /\ csocket' = IF csocket # "none" THEN "closed" ELSE csocket
    /\ targets' = <<>>
    /\ gjob' = [t \in Targets |->
                   IF InList(targets, t)
                   THEN connector_target_destroy(gjob, t)[t] ELSE gjob[t]]
    /\ tstate' = [t \in Targets |-> IF tstate[t] = "new" THEN "new"
                                   ELSE "destroyed"]
    /\ tleft' = [t \in Targets |-> 0]
    /\ UNCHANGED <<cpc, nconnected, nfailure, nerror, nconnecting, caddress,
                   chost, tres, texhausted>>

ConnInit ==
    /\ targets = <<>>
    /\ tstate = [t \in Targets |-> "new"]
    /\ tleft = [t \in Targets |-> 0]
    /\ csocket = "none"
    /\ cpc = "idle"
    /\ cfreed = FALSE
    /\ nconnected = 0
    /\ nfailure = 0
    /\ nerror = [t \in Targets |-> 0]
    /\ nconnecting = [t \in Targets |-> 0]
    /\ caddress = <<>>
    /\ chost = <<>>
    /\ tres = <<>>
    /\ texhausted = [t \in Targets |-> FALSE]
    /\ cregistered = FALSE
    /\ gjob = [t \in Targets |-> "none"]

\* The connector is modelled by itself: the async manager and the poller
\* are the callers of its two handlers. The program calls connector_free
\* once it has had on_connected or on_failure.
ConnFrame ==
    UNCHANGED <<timerVars, fdVars, asyncVars, idleVars, waitVars,
                fireVars, lockVars, advVars, passVars, epVars>>

ConnNext ==
    \/ \E t \in Targets : connector_add_target(t) /\ ConnFrame
    \/ \E t \in Targets, err \in BOOLEAN, n \in 1..MaxAddrs :
           connector_on_getaddrinfo(t, err, n) /\ ConnFrame
    \/ connector_step /\ ConnFrame
    \/ \E error \in BOOLEAN : connector_on_ready(error) /\ ConnFrame
    \/ \E t \in Targets : connector_getaddrinfo_cancelled(t) /\ ConnFrame
    \/ nconnected + nfailure >= 1 /\ connector_free /\ ConnFrame

\* The program may also give the connector up before it has had an outcome.
ConnFreeNext ==
    \/ ConnNext
    \/ connector_free /\ ConnFrame

\* --- two connectors, with and without the advisory callbacks: the
\* connector's functions as functions of one connector

\* if (!self->on_connecting) return; and the call otherwise.
connector_notify_connecting_of(c, advisory, target, gai_iter, err) ==
    IF ~advisory THEN c
    ELSE [c EXCEPT !.nconnecting = Bump(@),
                   !.address = IF gai_iter /\ ~err
                               THEN <<"numeric", target, c.tleft[target]>>
                               ELSE <<"hostname", target>>]

connector_prepare_next_of(c) ==
    LET target == Head(c.targets)
    IN  IF c.tleft[target] <= 1
        THEN [c EXCEPT !.targets = Tail(@),
                       !.tstate[target] = "destroyed",
                       !.tleft[target] = 0]
        ELSE [c EXCEPT !.tleft[target] = @ - 1]

\* Without on_error the error is not handled at all.
connector_handle_error_gated(c, advisory) ==
    IF advisory
    THEN [connector_prepare_next_of([c EXCEPT !.nerror = Bump(@)])
             EXCEPT !.pc = "step"]
    ELSE [c EXCEPT !.pc = "idle"]

\* if (self->on_error) self->on_error (...); connector_prepare_next;
\* connector_step.
connector_handle_error_of(c, advisory) ==
    [connector_prepare_next_of(
         IF advisory THEN [c EXCEPT !.nerror = Bump(@)] ELSE c)
        EXCEPT !.pc = "step"]

connector_add_target_of(c, t) ==
    [c EXCEPT !.tstate[t] = "pending", !.targets = Append(@, t)]

connector_on_getaddrinfo_of(c, t, err, n) ==
    [c EXCEPT !.tstate[t] = IF err THEN "failed" ELSE "resolved",
              !.tleft[t] = IF err THEN 0 ELSE n,
              !.pc = IF Head(c.targets) = t THEN "step" ELSE "idle"]

\* connector_step, once; every attempt on an address is put on record.
connector_step_of(c, advisory, outcome, err) ==
    IF c.targets = <<>>
    THEN [c EXCEPT !.terminal = Append(@, "on_failure"), !.pc = "idle"]
    ELSE LET target == Head(c.targets)
         IN  IF c.tstate[target] = "failed"
             THEN connector_handle_error_of(
                      connector_notify_connecting_of(c, advisory, target,
                                                     FALSE, FALSE),
                      advisory)
             ELSE IF c.tstate[target] = "resolved"
             THEN LET tried ==
                          [connector_notify_connecting_of(c, advisory, target,
                                                          TRUE, err)
                              EXCEPT !.attempts =
                                  Append(@, <<target, c.tleft[target], outcome>>)]
                  IN  IF outcome = "connected"
                      THEN [tried EXCEPT !.terminal = Append(@, "on_connected"),
                                         !.pc = "idle"]
                      ELSE IF outcome = "in_progress"
                      THEN [tried EXCEPT !.socket = TRUE, !.pc = "idle"]
                      ELSE connector_handle_error_of(tried, advisory)
             ELSE [c EXCEPT !.pc = "idle"]

connector_on_ready_of(c, advisory, error) ==
    IF error
    THEN connector_handle_error_of([c EXCEPT !.socket = FALSE], advisory)
    ELSE [c EXCEPT !.socket = FALSE,
                   !.terminal = Append(@, "on_connected")]

\* The same call, with the same outcomes of resolution and connect, is made
\* on both connectors; each takes it when its own state allows it.
AdvAddTarget(t) ==
    /\ \E a \in BOOLEAN : adv[a].tstate[t] = "new"
    /\ \A u \in Targets : u < t => adv[TRUE].tstate[u] # "new"
    /\ adv' = [a \in BOOLEAN |->
                  IF adv[a].pc = "idle" /\ adv[a].terminal = <<>>
                     /\ adv[a].tstate[t] = "new"
                  THEN connector_add_target_of(adv[a], t) ELSE adv[a]]

AdvOnGetaddrinfo(t, err, n) ==
    /\ \E a \in BOOLEAN : adv[a].pc = "idle" /\ adv[a].tstate[t] = "pending"
    /\ adv' = [a \in BOOLEAN |->
                  IF adv[a].pc = "idle" /\ adv[a].tstate[t] = "pending"
                  THEN connector_on_getaddrinfo_of(adv[a], t, err, n)
                  ELSE adv[a]]

AdvStep(outcome, err) ==
    /\ \E a \in BOOLEAN : adv[a].pc = "step"
    /\ adv' = [a \in BOOLEAN |->
                  IF adv[a].pc = "step"
                  THEN connector_step_of(adv[a], a, outcome, err)
                  ELSE adv[a]]

AdvOnReady(error) ==
    /\ \E a \in BOOLEAN : adv[a].pc = "idle" /\ adv[a].socket
    /\ adv' = [a \in BOOLEAN |->
                  IF adv[a].pc = "idle" /\ adv[a].socket
                  THEN connector_on_ready_of(adv[a], a, error)
                  ELSE adv[a]]

AdvInit ==
    adv = [a \in BOOLEAN |->
              [targets |-> <<>>,
               tstate |-> [t \in Targets |-> "new"],
               tleft |-> [t \in Targets |-> 0],
               socket |-> FALSE,
               pc |-> "idle",
               attempts |-> <<>>,
               terminal |-> <<>>,
               nconnecting |-> 0,
               nerror |-> 0,
               address |-> <<>>]]

AdvFrame ==
    UNCHANGED <<timerVars, fdVars, asyncVars, connVars, idleVars, waitVars,
                fireVars, lockVars, passVars, epVars>>

AdvNext ==
    \/ \E t \in Targets : AdvAddTarget(t) /\ AdvFrame
    \/ \E t \in Targets, err \in BOOLEAN, n \in 1..MaxAddrs :
           AdvOnGetaddrinfo(t, err, n) /\ AdvFrame
    \/ \E outcome \in Attempts, err \in BOOLEAN :
           AdvStep(outcome, err) /\ AdvFrame
    \/ \E error \in BOOLEAN : AdvOnReady(error) /\ AdvFrame

\* ---------------------------------------------------------- idle queue ---

\* The last entry of the list that begins with e.
RECURSIVE ListTail(_, _)
ListTail(nxt, e) == IF nxt[e] = 0 THEN e ELSE ListTail(nxt, nxt[e])

\* The link is put at the end of the list.
LIST_APPEND_LINKS(head, nxt, prv, link) ==
    IF head = 0
    THEN [head |-> link,
          next |-> [nxt EXCEPT ![link] = 0],
          prev |-> [prv EXCEPT ![link] = 0]]
    ELSE [head |-> head,
          next |-> [nxt EXCEPT ![link] = 0, ![ListTail(nxt, head)] = link],
          prev |-> [prv EXCEPT ![link] = ListTail(nxt, head)]]

\* The fields a list link has after LIST_PREPEND (head, link).
LIST_PREPEND_LINKS(head, nxt, prv, link) ==
    [head |-> link,
     next |-> [nxt EXCEPT ![link] = head],
     prev |-> IF head # 0 THEN [prv EXCEPT ![link] = 0, ![head] = link]
              ELSE [prv EXCEPT ![link] = 0]]

\* The fields after LIST_UNLINK (head, link): the neighbours are joined, and
\* the link keeps its own pointers.
LIST_UNLINK_LINKS(head, nxt, prv, link) ==
    [head |-> IF prv[link] # 0 THEN head ELSE nxt[link],
     next |-> IF prv[link] # 0 THEN [nxt EXCEPT ![prv[link]] = nxt[link]]
              ELSE nxt,
     prev |-> IF nxt[link] # 0 THEN [prv EXCEPT ![nxt[link]] = prv[link]]
              ELSE prv]

\* poller_idle_set and poller_idle_reset are called by the program outside
\* poller_idle_dispatch, or by the callback that dispatch is in.
IdleUserCode == ipc \in {"out", "cb"}

\* LIST_PREPEND whether or not the entry is active.
AlreadyActive_unchecked(e) == FALSE

\* if (self->active) return;
AlreadyActive(e) == iactive[e]

\* poller_idle_set
poller_idle_set(e) ==
    /\ IdleUserCode
    /\ icall' = <<"set", e, iactive[e]>>
    /\ IF AlreadyActive(e)
       THEN UNCHANGED <<ihead, inext, iprev, iactive>>
       ELSE LET l == LIST_PREPEND_LINKS(ihead, inext, iprev, e)
            IN  /\ ihead' = l.head
                /\ inext' = l.next
                /\ iprev' = l.prev
                /\ iactive' = [iactive EXCEPT ![e] = TRUE]
    /\ iorder' = IF iactive[e] THEN iorder ELSE <<e>> \o iorder
    /\ UNCHANGED <<ipc, iiter, isnext, invoked, atStart, ireset, stale>>

\* poller_idle_reset
poller_idle_reset(e) ==
    /\ IdleUserCode
    /\ icall' = <<"reset", e, iactive[e]>>
    /\ IF ~iactive[e]
       THEN UNCHANGED <<ihead, inext, iprev, iactive, ireset>>
       ELSE LET l == LIST_UNLINK_LINKS(ihead, inext, iprev, e)
            IN  /\ ihead' = l.head
                /\ inext' = [l.next EXCEPT ![e] = 0]
                /\ iprev' = [l.prev EXCEPT ![e] = 0]
                /\ iactive' = [iactive EXCEPT ![e] = FALSE]
                /\ ireset' = IF ipc = "cb" THEN ireset \cup {e} ELSE ireset
    /\ iorder' = SelectSeq(iorder, LAMBDA x : x # e)
    /\ UNCHANGED <<ipc, iiter, isnext, invoked, atStart, stale>>

\* poller_idle_dispatch is entered with the head of the list.
IdleDispatchBegin ==
    /\ ipc = "out"
    /\ ipc' = "loop"
    /\ iiter' = ihead
    /\ isnext' = 0
    /\ invoked' = [e \in Idles |-> 0]
    /\ atStart' = {e \in Idles : iactive[e]}
    /\ ireset' = {}
    /\ stale' = {}
    /\ icall' = <<>>
    /\ UNCHANGED <<ihead, inext, iprev, iactive, iorder>>

\* One turn of the for loop: next = iter->next, and the dispatcher of iter is
\* invoked; with no iter the function returns.
IdleDispatchInvoke ==
    /\ ipc = "loop"
    /\ IF iiter = 0
       THEN /\ ipc' = "out"
            /\ UNCHANGED <<iiter, isnext, invoked, stale>>
       ELSE /\ isnext' = inext[iiter]
            /\ invoked' = [invoked EXCEPT ![iiter] = Bump(@)]
            /\ stale' = IF iactive[iiter] THEN stale ELSE stale \cup {iiter}
            /\ ipc' = "cb"
            /\ UNCHANGED iiter
    /\ UNCHANGED <<ihead, inext, iprev, iactive, atStart, ireset, icall,
                   iorder>>

\* The dispatcher returns: iter = next.
IdleDispatchReturn ==
    /\ ipc = "cb"
    /\ iiter' = isnext
    /\ isnext' = 0
    /\ ipc' = "loop"
    /\ UNCHANGED <<ihead, inext, iprev, iactive, invoked, atStart, ireset,
                   stale, icall, iorder>>

IdleInit ==
    /\ ihead = 0
    /\ inext = [e \in Idles |-> 0]
    /\ iprev = [e \in Idles |-> 0]
    /\ iactive = [e \in Idles |-> FALSE]
    /\ ipc = "out"
    /\ iiter = 0
    /\ isnext = 0
    /\ invoked = [e \in Idles |-> 0]
    /\ atStart = {}
    /\ ireset = {}
    /\ stale = {}
    /\ icall = <<>>
    /\ iorder = <<>>

IdleFrame ==
    UNCHANGED <<timerVars, fdVars, asyncVars, connVars, waitVars,
                fireVars, lockVars, advVars, passVars, epVars>>

IdleNext ==
    \/ \E e \in Idles : poller_idle_set(e) /\ IdleFrame
    \/ \E e \in Idles : poller_idle_reset(e) /\ IdleFrame
    \/ IdleDispatchBegin /\ IdleFrame
    \/ IdleDispatchInvoke /\ IdleFrame
    \/ IdleDispatchReturn /\ IdleFrame

\* ------------------------------------------------- the wait's timeout ---

\* poller_run computes the timeout of its wait.
PollerGetTimeout ==
    /\ lwait' = [timeout |-> poller_common_get_timeout,
                 idle |-> ihead # 0,
                 timers |-> Len(heap) > 0,
                 delayed |-> delayed # <<>>]
    /\ UNCHANGED <<timerVars, fdVars, asyncVars, connVars, idleVars, fireVars,
                   lockVars, advVars, passVars, epVars>>

WaitInit ==
    lwait = [timeout |-> -1, idle |-> FALSE, timers |-> FALSE,
             delayed |-> FALSE]

\* The program between two iterations of poller_run: it arms and disarms its
\* timers, two at a time at most, with timeouts below and above the retry
\* constant, sets and resets an idle entry, and submits jobs whose threads
\* may fail to start; time passes; poller_run asks for the timeout.
WaitNext ==
    \/ \E t \in Timers, timeout_ms \in {0, MaxTimeout, RetryTimeout + 1} :
           /\ Fresh(t)
           /\ tindex[t] # -1 \/ Len(heap) < 2
           /\ poller_timer_set(t, timeout_ms)
           /\ TimersFrame
    \/ \E t \in Timers : tindex[t] # -1 /\ poller_timer_reset(t) /\ TimersFrame
    \/ Tick /\ TimersFrame
    \/ ipc = "out" /\ poller_idle_set(1) /\ IdleFrame
    \/ ipc = "out" /\ poller_idle_reset(1) /\ IdleFrame
    \/ \E j \in Jobs, ok \in BOOLEAN : Submit(j, ok) /\ AsyncFrame
    \/ PollerGetTimeout

Init ==
    /\ TimersInit /\ FdInit /\ AsyncInit /\ ConnInit /\ IdleInit /\ WaitInit
    /\ FireInit /\ LockInit /\ AdvInit /\ PassInit /\ EpInit

\* The build that has epoll.
InitLinux == Init /\ backend = "epoll"

SpecTimers == InitLinux /\ [][TimersNext]_vars

SpecFd == Init /\ [][FdNext]_vars

SpecAsync == InitLinux /\ [][AsyncNext]_vars

SpecConn == InitLinux /\ [][ConnNext]_vars

SpecConnFree == InitLinux /\ [][ConnFreeNext]_vars

SpecIdle == InitLinux /\ [][IdleNext]_vars

SpecWait == InitLinux /\ [][WaitNext]_vars

SpecFire == InitLinux /\ [][FireNext]_vars

SpecLock == InitLinux /\ [][LockNext]_vars

SpecPass == InitLinux /\ [][PassNext]_vars

SpecEpoll == InitLinux /\ [][EpNext]_vars

\* Every thread goes on running, and the loop comes to
\* async_manager_dispatch again and again. A worker that waits for the
\* mutex gets it: the loop thread releases it after a few statements, or
\* sleeps in pthread_cond_wait until a worker wakes it.
SpecLockFair ==
    /\ SpecLock
    /\ WF_vars(LockStep(0) /\ LockFrame)
    /\ \A j \in Jobs : SF_vars(LockStep(j) /\ LockFrame)
    /\ WF_vars(LockDispatch /\ LockFrame)

SpecAdvisory == InitLinux /\ [][AdvNext]_vars

\* The loop thread goes on inside a call of the manager, and the scheduler
\* runs every worker thread: a worker that can take a step takes it, one that
\* needs the lock gets it if the lock is free again and again, and a worker
\* cancelled while execute blocks acts upon the request. That execute
\* returns by itself is not assumed.
SpecAsyncFair ==
    /\ SpecAsync
    /\ WF_vars(ManagerStep)
    /\ \A j \in Jobs :
           /\ WF_vars(WorkerCancelled(j) /\ AsyncFrame)
           /\ SF_vars(WorkerMove(j) /\ AsyncFrame)
           /\ WF_vars(WorkerBroadcast(j) /\ AsyncFrame)
           /\ WF_vars(WorkerWrite(j) /\ AsyncFrame)

\* The program runs poller_run again and again and nothing but the
\* completion pipe and the retry timeout ends its wait; the threads are
\* scheduled as in SpecAsyncFair.
SpecAsyncLoop ==
    /\ InitLinux /\ [][AsyncLoopNext]_vars
    /\ WF_vars(LoopStep)
    /\ \A j \in Jobs :
           /\ WF_vars(WorkerCancelled(j) /\ AsyncFrame)
           /\ SF_vars(WorkerMove(j) /\ AsyncFrame)
           /\ WF_vars(WorkerBroadcast(j) /\ AsyncFrame)
           /\ WF_vars(WorkerWrite(j) /\ AsyncFrame)

\* ------------------------------------------- claims: readiness backends ---

PendingReadiness ==
    {f \in captured \ resetB :
        findex[f] # -1 /\ pollfds[findex[f] + 1].revents # {}}

Dispatches(f) == Cardinality({i \in 1..Len(dispatched) : dispatched[i] = f})

\* C26: in the poll backend, whatever registrations the callbacks remove,
\* a registration that stays registered with readiness pending in the batch
\* is either still ahead of the dispatch loop and not dispatched, or behind
\* it and dispatched once; so that when the loop ends each has been
\* dispatched exactly once. No registration is dispatched twice.
C26_PollDispatchesOnce ==
    backend = "poll" /\ ppc = "fds" =>
        /\ \A f \in PendingReadiness :
               Dispatches(f) = IF findex[f] >= PollLoopIndex THEN 0 ELSE 1
        /\ \A f \in Fds : Dispatches(f) <= 1
        /\ PollLoopIndex >= Len(fds) =>
               \A f \in PendingReadiness : Dispatches(f) = 1

\* C26's case: the loop of the poll backend is over; the first dispatcher
\* removed a registration, and a registration with pending readiness that
\* was dispatched after it remains.
C26_Witness ==
    /\ backend = "poll" /\ ppc = "fds" /\ ~incb
    /\ PollLoopIndex >= Len(fds)
    /\ Len(dispatched) >= 2
    /\ resetB # {}
    /\ dispatched[1] \in resetB
    /\ dispatched[Len(dispatched)] \in PendingReadiness
    /\ \E f \in captured \ resetB : captured \ resetB # {f}

\* The records of the batch that hold descriptor f.
BatchRecords(f) == {revents[i] : i \in {k \in 1..revents_len : revents[k].fd = f}}

\* The portable flags of all the records of f, the writable bit cleared
\* when there is a hangup.
MergedFlags(f) ==
    LET all == UNION {poller_kqueue_to_poll_events(r) : r \in BatchRecords(f)}
    IN  IF "HUP" \in all /\ "OUT" \in all THEN all \ {"OUT"} ELSE all

\* C27: in the kqueue backend the dispatcher of a descriptor is handed the
\* union of the portable flags of all its records in the batch, without
\* the writable bit when the union holds a hangup; no descriptor is
\* dispatched twice, and one that is not removed has been dispatched once
\* when the loop ends; all the records of a removed descriptor are dummies.
C27_KqueueMergesRecords ==
    backend = "kqueue" /\ ppc = "fds" =>
        /\ pfd # <<>> => pfd.revents = MergedFlags(pfd.fd)
        /\ \A f \in Fds : Dispatches(f) <= 1
        /\ li >= n_fds => \A f \in captured \ resetB : Dispatches(f) = 1
        /\ \A f \in resetB : \A r \in BatchRecords(f) : r.dummy

\* C27's case: a descriptor with a read and a write record, one of them
\* with a hangup, has been dispatched, and its dispatcher has removed it.
C27_Witness ==
    /\ backend = "kqueue" /\ ppc = "fds" /\ incb
    /\ pfd # <<>>
    /\ Cardinality(BatchRecords(pfd.fd)) = 2
    /\ \E r \in BatchRecords(pfd.fd) : "EV_EOF" \in r.flags
    /\ "HUP" \in pfd.revents /\ "IN" \in pfd.revents
    /\ pfd.fd \in resetB
    /\ revents_len > 2

\* ------------------------------------------------- claims: timer heap ---

\* The timers the finished pass has fired, as a set.
FiredSet == {fired[i].timer : i \in 1..Len(fired)}

\* C1: a pass of poller_timers_dispatch whose callbacks leave the timers
\* alone has, when it returns, invoked exactly the timers that were scheduled
\* with an expiry <= now when it began, each once, in non-decreasing expiry
\* order.
C1_DispatchFiresExactlyDue ==
    tpc = "done" =>
        /\ FiredSet = due0
        /\ \A i, j \in 1..Len(fired) : fired[i].timer = fired[j].timer => i = j
        /\ \A i, j \in 1..Len(fired) : i < j => fired[i].when <= fired[j].when

\* C2: every non-root entry of the heap expires no earlier than its parent.
C2_HeapOrder ==
    \A i \in 1..(Len(heap) - 1) :
        when[heap[((i - 1) \div 2) + 1]] <= when[heap[i + 1]]

\* C3: a scheduled timer's index is the slot that holds it, a detached timer
\* has index -1 and is in no slot, and no timer is in two slots.
C3_BackIndex ==
    /\ \A t \in Timers :
           IF poller_timer_is_active(t)
           THEN tindex[t] \in 0..(Len(heap) - 1) /\ heap[tindex[t] + 1] = t
           ELSE tindex[t] = -1 /\ \A i \in 1..Len(heap) : heap[i] # t
    /\ \A i, j \in 1..Len(heap) : heap[i] = heap[j] => i = j

\* C3's case: timers were set, some were reset, a pass has fired two and left
\* two scheduled.
C3_Witness ==
    /\ tpc = "done"
    /\ Len(fired) >= 2
    /\ Len(heap) >= 2
    /\ calls > Len(fired) + Len(heap)

\* The running dispatcher schedules its own timer again.
Rearm ==
    /\ tpc = "loop"
    /\ tfire # <<>>
    /\ ~poller_timer_is_active(tfire.timer)
    /\ tindex'[tfire.timer] # -1

\* C21: as a timer's dispatcher is invoked the timer is detached (in no
\* slot, poller_timer_is_active false) and was scheduled by a
\* poller_timer_set since it last fired; and a dispatcher that sets its own
\* timer leaves that timer in exactly one slot, every back-index right, and
\* the heap ordered if it was.
C21_FiresOnceDetached ==
    /\ [](tfire # <<>> => tfire.detached /\ tfire.armed)
    /\ [][Rearm =>
             /\ Cardinality({i \in 1..Len(heap') : heap'[i] = tfire.timer}) = 1
             /\ C3_BackIndex'
             /\ C2_HeapOrder => C2_HeapOrder']_vars

\* C21's case: the dispatcher of a timer has set its own timer again, next
\* to two other scheduled timers, and the pass goes on.
C21_Witness ==
    /\ tpc = "loop"
    /\ tfire # <<>>
    /\ poller_timer_is_active(tfire.timer)
    /\ Len(heap) = 3
    /\ touched

\* C34: whenever a worker goes through the cleanup step, whatever
\* async_cancel and the teardown have done meanwhile, the job goes from
\* running to finished, once, and the step ends with the job's byte
\* written to the pipe.
C34_CleanupTakesEffect ==
    [][\A j \in Jobs :
          /\ (wpc[j] = "lock" /\ wpc'[j] # "lock") =>
                 /\ InList(running, j) /\ ~InList(finished, j)
                 /\ ~InList(running', j) /\ InList(finished', j)
          /\ (wpc[j] # "lock" /\ wpc'[j] = wpc[j]) =>
                 (InList(finished', j) => InList(finished, j))
          /\ (wpc[j] = "write" /\ wpc'[j] = "exited") => pipe']_vars

\* The scheduled timers the pass under way has still to fire.
Due == {t \in Timers : tindex[t] # -1 /\ when[t] <= now}

\* The pass fires timer t in this step.
Fires(t) == tpc = "loop" /\ parmed[t] # "fired" /\ parmed'[t] = "fired"

\* No timer is fired with an expiry later than the time the pass read when
\* it began, however the clock has advanced since.
FiresOnlyDue == \A t \in Timers : Fires(t) => when[t] <= now

\* During a pass the timers it has still to fire only become more by a
\* poller_timer_set with a timeout that is not positive, and every turn of
\* the loop takes one away.
DueShrinks ==
    tpc = "loop" /\ tpc' = "loop" =>
        /\ \A t \in Due' \ Due : when'[t] <= clock
        /\ \A t \in Timers :
               Fires(t) => Due' = Due \ {t} /\ t \in Due

\* When the pass ends, no timer armed during it with an expiry up to the
\* time read is left scheduled.
ArmedDueFired ==
    tpc = "loop" /\ tpc' # "loop" =>
        \A t \in Timers : parmed[t] = "armed" => t \notin Due

\* C39: the time is read once when poller_timers_dispatch begins. A timer
\* armed during the pass with a later expiry is not fired in the pass, and
\* with positive timeouts only the timers left to fire get fewer with every
\* turn, so the pass ends; a timer armed during the pass with an expiry up
\* to the time read is fired before the pass ends.
C39_TimeCapturedOnce == [][FiresOnlyDue /\ DueShrinks /\ ArmedDueFired]_vars

\* C39 without its last part.
C39_LaterExpiryWaits == [][FiresOnlyDue /\ DueShrinks]_vars

\* The timers that are scheduled, and the least time left to an expiry.
Scheduled == {t \in Timers : tindex[t] # -1}

LeastTimeLeft ==
    LET t == CHOOSE u \in Scheduled : \A v \in Scheduled : when[u] <= when[v]
    IN  when[t] - clock

\* C33: the timers' poll timeout is -1 with no timer scheduled, 0 when some
\* scheduled timer has expired, and otherwise the least time left to the
\* expiry of any scheduled timer, INT_MAX at most.
C33_TimeoutIsMinimum ==
    poller_timers_get_poll_timeout =
        IF Scheduled = {} THEN -1
        ELSE IF LeastTimeLeft <= 0 THEN 0
        ELSE IF LeastTimeLeft > INT_MAX THEN INT_MAX
        ELSE LeastTimeLeft

\* ------------------------------------------------ claims: async manager ---

\* The places a job is linked or held at: the three queues and the iter of
\* async_manager_dispatch.
Occurrences(j) ==
    Cardinality({i \in 1..Len(running) : running[i] = j})
    + Cardinality({i \in 1..Len(finished) : finished[i] = j})
    + Cardinality({i \in 1..Len(delayed) : delayed[i] = j})
    + (IF iter = j THEN 1 ELSE 0)

\* Where a job is: not yet submitted, in one of the three queues, fetched
\* for dispatch (the iter of async_manager_dispatch), or destroyed.
JobState(j) ==
    IF life[j] # "submitted" THEN life[j]
    ELSE IF iter = j /\ QueueOf(j) = "none" THEN "fetched"
    ELSE QueueOf(j)

\* The moves the job state machine is said to make; a submission is a move
\* to running, which a failing pthread_create turns into one to delayed
\* within the same call of async_run.
ListedMoves ==
    {<<"new", "running">>, <<"new", "delayed">>,
     <<"delayed", "running">>, <<"running", "delayed">>,
     <<"running", "finished">>, <<"finished", "fetched">>,
     <<"fetched", "destroyed">>}

\* A submitted job is at one place, and moves along the given set only.
JobMovesWithin(moves) ==
    \A j \in Jobs :
        /\ life'[j] = "submitted" => Occurrences(j)' = 1
        /\ JobState(j)' # JobState(j) =>
               <<JobState(j), JobState(j)'>> \in moves

\* C35 as stated: every submitted job is in one of the queues or fetched,
\* and the listed moves are the only ones.
C35_OnlyListedMoves == [][JobMovesWithin(ListedMoves)]_vars

\* C35: every submitted, not yet destroyed job is at exactly one place, and
\* its moves are the listed ones and one more: a cancelled job met in the
\* delayed queue is destroyed from there. Finished never leads to running.
C35_JobStateMachine ==
    [][JobMovesWithin(ListedMoves \cup {<<"delayed", "destroyed">>})]_vars

\* C35's case: a job whose thread could not be created was started again
\* from the delayed queue, has finished and is fetched for dispatch, while
\* another job was destroyed.
C35_Witness ==
    \E j, k \in Jobs :
        /\ JobState(j) = "fetched" /\ nfail[j] = 1 /\ nexec[j] = 1
        /\ JobState(k) = "destroyed"

\* C36: in the retry pass of async_manager_dispatch the delayed jobs are
\* taken one at a time from the head: a cancelled one is destroyed, never
\* started, and the pass goes on; one whose thread is created goes to running
\* and the pass goes on; at the first one whose thread cannot be created the
\* pass stops, with that job back at the head of delayed and the jobs behind
\* it as they were.
C36_RetryStopsAtFirstFailure ==
    [][(mpc = "delayed" /\ delayed # <<>>
            /\ (mpc' # mpc \/ delayed' # delayed)) =>
       LET j == Head(delayed)
       IN  IF cancelled[j]
           THEN /\ life'[j] = "destroyed"
                /\ nexec[j] = 0 /\ nexec' = nexec
                /\ wpc' = wpc
                /\ running' = running
                /\ delayed' = Tail(delayed)
                /\ mpc' = "delayed"
           ELSE IF InList(delayed', j)
           THEN /\ delayed' = <<j>> \o Tail(delayed)
                /\ running' = running
                /\ nexec' = nexec /\ wpc' = wpc /\ life' = life
                /\ mpc' \in {"idle", "freed"}
           ELSE /\ delayed' = Tail(delayed)
                /\ running' = <<j>> \o running
                /\ life' = life
                /\ mpc' = "delayed"]_vars

\* C36's case: a dispatch call met a cancelled job at the head of delayed
\* and destroyed it unstarted, then stopped at the job behind it, whose
\* thread could again not be created and which is in delayed still.
C36_Witness ==
    /\ mpc = "idle"
    /\ ~teardown
    /\ \E j, k \in Jobs :
           /\ j < k
           /\ delayed = <<j>> /\ nexec[j] = 0 /\ ~cancelled[j]
           /\ life[k] = "destroyed" /\ cancelAt[k] = "delayed"
           /\ nexec[k] = 0 /\ ndisp[k] = 0

\* The dispatcher or the destroy of a started job is invoked in this step.
Invoked(j) ==
    /\ started[j]
    /\ ndisp'[j] # ndisp[j] \/ ndestroy'[j] # ndestroy[j]

\* The worker of job j is somewhere between the start of execute and the
\* end of async_cleanup.
WorkerAlive(j) == wpc[j] \in {"execute", "lock", "broadcast", "write"}

\* No dispatcher and no destroy is invoked for a job whose worker thread
\* has not ended, wherever in the cleanup step the job was fetched.
DestroyAfterJoin == \A j \in Jobs : Invoked(j) => ~WorkerAlive(j)

\* C37: the dispatcher and the destroy of a job are invoked only after its
\* worker thread has ended, and a worker thread ends only with the whole
\* cleanup step done: the job in finished, the broadcast made and the byte
\* written to the pipe.
C37_DestroyAfterCleanup ==
    [][/\ DestroyAfterJoin
       /\ \A j \in Jobs :
              (WorkerAlive(j) /\ ~WorkerAlive(j)') =>
                  /\ wpc[j] = "write"
                  /\ InList(finished, j) \/ iter = j
                  /\ pipe']_vars

\* The part of C37 that is about the order of join and destroy alone.
DestroyAfterJoinAlways == [][DestroyAfterJoin]_vars

\* C5: a job async_cancel was called on between its submission and its
\* dispatch, in whichever queue it then was, never has its dispatcher invoked;
\* it stays with the manager until its destroy has run, which runs once, and
\* has run when teardown returns.
C5_CancelledNeverDispatched ==
    \A j \in Jobs :
        cancelAt[j] # "none" =>
            /\ ndisp[j] = 0
            /\ ndestroy[j] <= 1
            /\ (life[j] = "destroyed") = (ndestroy[j] = 1)
            /\ life[j] = "submitted" => Occurrences(j) = 1
            /\ mpc = "freed" => life[j] = "destroyed"

\* C5's case: one job was cancelled in the finished queue, another in the
\* delayed queue with no thread ever started, and dispatch calls (no teardown)
\* have destroyed both.
C5_Witness ==
    /\ ~teardown
    /\ \E j, k \in Jobs :
           /\ cancelAt[j] = "finished" /\ life[j] = "destroyed"
           /\ cancelAt[k] = "delayed" /\ nexec[k] = 0 /\ life[k] = "destroyed"

\* C6 as claimed: a job that is never cancelled has its dispatcher invoked
\* once, after execute has returned, in the first async_manager_dispatch call
\* that begins after the job entered finished, and destroy once, after it.
C6_DispatchedInFirstCallAfter ==
    \A j \in Jobs :
        /\ ndisp[j] <= 1
        /\ (mpc = "cb" /\ iter = j) =>
               returned[j] /\ ndisp[j] = 1 /\ ndestroy[j] = 0 /\ begins[j] = 1
        /\ (life[j] = "destroyed" /\ ~cancelled[j]) =>
               ndisp[j] = 1 /\ ndestroy[j] = 1

\* C6, amended: the dispatcher is invoked no later than in the first
\* async_manager_dispatch call that begins after the job entered finished: in
\* that call, or in the call underway when the job entered.
C6_DispatchedByFirstCallAfter ==
    \A j \in Jobs :
        /\ ndisp[j] <= 1
        /\ (mpc = "cb" /\ iter = j) =>
               returned[j] /\ ndisp[j] = 1 /\ ndestroy[j] = 0 /\ begins[j] <= 1
        /\ (life[j] = "destroyed" /\ ~cancelled[j]) =>
               ndisp[j] = 1 /\ ndestroy[j] = 1

\* C6's case: one job has been dispatched and destroyed, and the dispatcher
\* of another runs in a call that began after that job entered finished.
C6_Witness ==
    /\ mpc = "cb"
    /\ begins[iter] = 1
    /\ \E j \in Jobs : life[j] = "destroyed" /\ ndisp[j] = 1 /\ ~cancelled[j]

\* C7: a job is linked or held in at most one place, in exactly one while
\* it has not been destroyed; its execute is begun at most once; and a job
\* whose thread creation has failed and that has no thread yet is in delayed.
C7_NeverDroppedNorDuplicated ==
    \A j \in Jobs :
        /\ Occurrences(j) <= 1
        /\ life[j] = "submitted" => Occurrences(j) = 1
        /\ nexec[j] <= 1
        /\ started[j] => nexec[j] = 1
        /\ (life[j] = "submitted" /\ nfail[j] >= 1 /\ ~started[j]) =>
               InList(delayed, j) /\ wpc[j] = "none"

\* C7's case: a job whose thread creation failed has been started by a
\* retry of async_manager_dispatch, which then failed on the next job and
\* left it in delayed.
C7_Witness ==
    /\ mpc = "idle"
    /\ \E j, k \in Jobs :
           /\ nfail[j] = 1 /\ InList(running, j) /\ wpc[j] = "execute"
           /\ nfail[k] = 1 /\ InList(delayed, k) /\ ~cancelled[k]

\* C8: once async_manager_cancel_all has been entered, it returns.
C8_TeardownTerminates == teardown ~> (mpc = "freed")

\* C8's case: teardown has returned after waiting on finished_cond for jobs
\* that were all running when it began and whose execute never returned.
C8_Witness ==
    /\ mpc = "freed"
    /\ waited
    /\ \A j \in Jobs : tdQueue[j] = "running" /\ ~returned[j]

\* C9: when teardown has returned the three queues are empty, no submitted
\* job is left without its destroy, which has run once, and no dispatcher
\* has been invoked since teardown began.
C9_TeardownLeavesNothing ==
    mpc = "freed" =>
        /\ running = <<>> /\ finished = <<>> /\ delayed = <<>>
        /\ \A j \in Jobs : life[j] # "submitted" /\ ndestroy[j] <= 1
        /\ \A j \in Jobs : life[j] = "destroyed" => ndestroy[j] = 1
        /\ ~tdDisp

\* C9's case: teardown has returned, and it began with a job in finished
\* that no dispatch had handled and a job in delayed; neither had been
\* cancelled by the program.
C9_Witness ==
    /\ mpc = "freed"
    /\ \E j, k \in Jobs :
           /\ tdQueue[j] = "finished" /\ cancelAt[j] = "none"
           /\ tdQueue[k] = "delayed" /\ cancelAt[k] = "none"

\* The calls during which the calling thread must not hold the lock.
Unlocked == {"execute", "dispatcher", "destroy", "pthread_join", "write"}

\* No call of Unlocked has been made with the lock held, no thread has
\* locked the mutex twice, and a thread that holds the mutex is on its way
\* to releasing it with no call of Unlocked and no lock in between.
LockNeverAcrossCalls ==
    /\ \A c \in lkcalls : c[1] \in Unlocked => ~c[3]
    /\ ~lkrec
    /\ \A th \in Threads :
           lkholder = th =>
               /\ lkcode[th] # <<>>
               /\ Head(lkcode[th])[1] \notin Unlocked \cup {"lock"}

\* C32: the mutex is not held during execute, dispatcher, destroy, the join
\* or the write to the pipe, so that no thread waits for a mutex it holds
\* itself; and a job that a dispatcher has started is dispatched, or
\* destroyed if it is cancelled meanwhile.
C32_DispatcherMayRun ==
    /\ []LockNeverAcrossCalls
    /\ \A j \in Jobs :
           (<<"async_run", j, TRUE>> \in lkcalls /\ lkcode[j] # <<>>)
               ~> (\/ <<"dispatcher", j, FALSE>> \in lkcalls
                   \/ j \in lkcancelled /\ lkqueue[j] = "destroyed")

\* C32's case: a dispatcher has started a job, and that job has been
\* dispatched and destroyed in its turn.
C32_Witness ==
    \E j \in Jobs :
        /\ <<"async_run", j, TRUE>> \in lkcalls
        /\ <<"dispatcher", j, FALSE>> \in lkcalls
        /\ lkqueue[j] = "destroyed"

Progress(c) == [c EXCEPT !.nconnecting = 0, !.nerror = 0, !.address = <<>>]

\* C31: given the same targets and the same outcomes of resolution and
\* connect, the connector with on_connecting and on_error and the one
\* without are in the same state, have made the same attempts and have had
\* the same terminal callback; the one without has made no advisory call.
C31_AdvisoryNeverGates ==
    /\ Progress(adv[TRUE]) = Progress(adv[FALSE])
    /\ adv[FALSE].nconnecting = 0 /\ adv[FALSE].nerror = 0

\* C31's case: after an error and two attempts, the second on another
\* target, both connectors have come to a terminal callback, and the one
\* with advisory callbacks has had on_error and on_connecting.
C31_Witness ==
    /\ adv[TRUE].terminal # <<>>
    /\ adv[FALSE].terminal = adv[TRUE].terminal
    /\ Len(adv[FALSE].attempts) >= 2
    /\ adv[FALSE].attempts[1][1] # adv[FALSE].attempts[2][1]
    /\ adv[TRUE].nerror >= 1
    /\ adv[TRUE].nconnecting >= 2

\* Nothing is left that would drive the connector on: no step to run, no
\* resolution of a listed target outstanding, no connect in progress.
ConnQuiescent ==
    /\ cpc = "idle"
    /\ csocket = "none"
    /\ \A i \in 1..Len(targets) : tstate[targets[i]] # "pending"

\* C10: on_connected and on_failure are invoked once in total at most, and
\* once a connector that was given a target has nothing left to wait for,
\* exactly once.
C10_ExactlyOneOutcome ==
    /\ nconnected + nfailure <= 1
    /\ (ConnQuiescent /\ tstate[1] # "new") => nconnected + nfailure = 1

\* C10's case: on_connected has come from connector_on_ready after an
\* earlier target was given up, while the resolution of a later target is
\* still outstanding and arrives afterwards.
C10_Witness ==
    /\ nconnected = 1
    /\ ~cfreed
    /\ targets = <<2, 3>>
    /\ tstate[1] = "destroyed"
    /\ tstate[3] = "resolved"
    /\ tleft[2] = 1
    /\ csocket = "none"
    /\ cpc = "idle"

\* What the resolution of a target has given: "none" until it is dispatched.
Resolution(t) ==
    IF \E i \in 1..Len(tres) : tres[i][1] = t
    THEN (CHOOSE r \in {tres[i] : i \in 1..Len(tres)} : r[1] = t)[2]
    ELSE "none"

\* C11: with a first target whose resolution fails and a second, added with
\* it, that resolves and has an address that accepts the connection, in
\* whichever order the two resolutions are dispatched: on_failure is never
\* invoked, on_connected at most once, and once nothing is left to wait for
\* exactly once, with the hostname the second target was added with, after
\* on_error for the first target and on_connecting for the second.
C11_SecondTargetConnects ==
    (/\ Resolution(1) = "error"
     /\ tstate[2] # "new" /\ Resolution(2) # "error" /\ ~texhausted[2]
     /\ tstate[3] = "new") =>
        /\ nfailure = 0
        /\ nconnected <= 1
        /\ (ConnQuiescent /\ Resolution(2) = "results") => nconnected = 1
        /\ nconnected = 1 =>
               /\ chost = hostname(2)
               /\ nerror[1] = 1
               /\ nconnecting[2] >= 1

\* C11's case: the second target was resolved before the first one failed,
\* its first address refused the connection, and on_connected has come for
\* its second address, which on_connecting was given in numeric form.
C11_Witness ==
    /\ tres = <<<<2, "results">>, <<1, "error">>>>
    /\ nconnected = 1
    /\ chost = hostname(2)
    /\ caddress = <<"numeric", 2, 1>>
    /\ nconnecting[2] = 2
    /\ nerror[1] = 1 /\ nerror[2] = 1
    /\ ~cfreed

\* The targets that were added.
Added == {t \in Targets : tstate[t] # "new"}

\* C12: on_failure is invoked at most once, and only when every target added
\* has failed its resolution or every connect to its addresses; and when all
\* the targets given have so failed and nothing is left to wait for,
\* on_failure has been invoked exactly once and on_connected never.
C12_TotalFailure ==
    /\ nfailure <= 1
    /\ nfailure = 1 =>
           \A t \in Added : Resolution(t) = "error" \/ texhausted[t]
    /\ (/\ ConnQuiescent
        /\ Added # {}
        /\ \A t \in Added : Resolution(t) = "error" \/ texhausted[t]) =>
           nfailure = 1 /\ nconnected = 0

\* C12's case: of three targets the first had every connect fail, one from
\* connector_on_ready, the second failed its resolution and the third had
\* its only connect fail; on_failure has been invoked.
C12_Witness ==
    /\ nfailure = 1
    /\ Added = Targets
    /\ Resolution(1) = "results" /\ nerror[1] = 2
    /\ Resolution(2) = "error" /\ nerror[2] = 1
    /\ Resolution(3) = "results" /\ nerror[3] = 1
    /\ \A t \in Targets : texhausted[t]
    /\ ~cfreed

\* The resolution callbacks and the connector's callbacks, as the model
\* counts and records them.
ConnCallbacks ==
    <<tres, nconnecting, nerror, nconnected, nfailure, caddress, chost>>

\* C24: once connector_free has returned, connected_event is not registered,
\* no socket of the connector is left connecting, no resolution job of its
\* targets is left uncancelled, and nothing invokes on_connecting, on_error,
\* on_connected, on_failure or connector_on_getaddrinfo any more; and
\* connector_on_getaddrinfo is at no time invoked for a destroyed target.
C24_FreeSilences ==
    /\ [](cfreed =>
            /\ ~cregistered
            /\ csocket # "connecting"
            /\ \A t \in Targets : gjob[t] # "running")
    /\ [][cfreed => UNCHANGED ConnCallbacks]_vars
    /\ [][\A t \in Targets :
             tstate[t] = "destroyed" /\ tres' # tres =>
                 tres'[Len(tres')][1] # t]_vars

\* C24's case: connector_free was called with a connect in progress to
\* target 1 and the resolutions of targets 2 and 3 in flight; the job of
\* target 3 has since come to async_manager_dispatch.
C24_Witness ==
    /\ cfreed
    /\ csocket = "closed"
    /\ nconnected + nfailure = 0
    /\ Resolution(1) = "results"
    /\ gjob[2] = "cancelled"
    /\ gjob[3] = "done" /\ Resolution(3) = "none"

\* C28: the target list changes by a new target at its end or by its head
\* being dropped; on_connecting and on_error are invoked for the head
\* target only; the current address of a target moves by one address at a
\* time, of the head target only, and the target leaves the list with its
\* last address; and the resolution of a target that is not the head starts
\* no step and leaves socket and callbacks alone.
C28_HeadFirstInOrder ==
    /\ [][targets' # targets =>
             \/ \E t \in Targets : targets' = Append(targets, t)
             \/ targets # <<>> /\ targets' = Tail(targets)
             \/ cfreed']_vars
    /\ [][\A t \in Targets :
             nconnecting'[t] # nconnecting[t] \/ nerror'[t] # nerror[t] =>
                 IsHead(t)]_vars
    /\ [][\A t \in Targets :
             tleft'[t] # tleft[t] /\ tstate[t] # "pending" /\ ~cfreed' =>
                 /\ IsHead(t)
                 /\ tleft'[t] = tleft[t] - 1
                 /\ tleft'[t] = 0 <=> targets' = Tail(targets)]_vars
    /\ [][\A t \in Targets :
             tstate[t] = "pending" /\ tstate'[t] \in {"resolved", "failed"}
             /\ ~IsHead(t) =>
                 /\ cpc' = "idle"
                 /\ UNCHANGED <<csocket, nconnecting, nerror, nconnected,
                                nfailure, caddress, chost>>]_vars

\* C28's case: target 2 was resolved before target 1, the head; the first
\* of the two addresses of target 1 has failed and the second is being
\* connected to, with nothing done about target 2.
C28_Witness ==
    /\ tres = <<<<2, "results">>, <<1, "results">>>>
    /\ targets = <<1, 2>>
    /\ nerror[1] = 1 /\ nconnecting[1] = 2 /\ tleft[1] = 1
    /\ csocket = "connecting"
    /\ nconnecting[2] = 0

\* C29: on_failure is invoked only with the target list empty.
C29_FailureOnlyWhenEmpty ==
    [][nfailure' # nfailure => targets = <<>>]_vars

\* C29's case: target 1 was given up after the connects to both of its
\* addresses had failed, target 2 after its resolution had failed, target 3
\* is still being resolved, and on_failure has not been invoked.
C29_Witness ==
    /\ nerror[1] = 2 /\ texhausted[1]
    /\ Resolution(2) = "error" /\ tstate[2] = "destroyed"
    /\ targets = <<3>> /\ tstate[3] = "pending"
    /\ cpc = "idle"
    /\ nfailure = 0

\* C30: connector_step does not come to create a socket while
\* connector.socket is not -1; and while the connector lives its socket is
\* not -1 exactly when connected_event is registered, and then the head
\* target is resolved and has a current address.
C30_OneSocketInFlight ==
    /\ (cpc = "step" /\ ~NoTarget /\ tstate[Head(targets)] = "resolved")
           => csocket = "none"
    /\ ~cfreed => (csocket # "none" <=> cregistered)
    /\ (~cfreed /\ csocket # "none") =>
           /\ targets # <<>>
           /\ tstate[Head(targets)] = "resolved"
           /\ tleft[Head(targets)] >= 1

\* C30's case: a connect is in progress to the second address of the head
\* target after the first has failed, and a later target has been resolved
\* in the meantime.
C30_Witness ==
    /\ csocket = "connecting" /\ cregistered
    /\ targets = <<1, 2>>
    /\ nerror[1] = 1 /\ tleft[1] = 1
    /\ tstate[2] = "resolved"
    /\ tres = <<<<1, "results">>, <<2, "results">>>>

\* ----------------------------------------------- claims: completion pipe ---

\* C13: a job that is in the finished queue is in the end fetched by
\* async_manager_dispatch and destroyed: the loop does not stay in its wait
\* with a finished job pending.
C13_NoLostWakeup ==
    \A j \in Jobs : InList(finished, j) ~> (life[j] = "destroyed")

\* The same of the jobs that async_cancel is never called on.
NoLostWakeupUncancelled ==
    \A j \in Jobs :
        InList(finished, j) ~> (life[j] = "destroyed" \/ cancelled[j])

\* ---------------------------------------------------- claims: idle queue ---

\* The idle list as the next pointers give it from the head, cut after
\* fuel entries.
RECURSIVE IdleListFrom(_, _)
IdleListFrom(e, fuel) ==
    IF e = 0 \/ fuel = 0 THEN <<>>
    ELSE <<e>> \o IdleListFrom(inext[e], fuel - 1)

IdleList == IdleListFrom(ihead, NIdle + 1)

\* C14: when a pass of poller_idle_dispatch has returned, every entry that
\* was active when it began and that no callback deactivated has been invoked
\* exactly once, and in no pass is an entry invoked that is not active.
C14_IdleDispatchSafe ==
    /\ stale = {}
    /\ ipc = "out" => \A e \in atStart \ ireset : invoked[e] = 1

\* The list is well formed: no entry twice, the active flag true exactly of
\* the entries on it, and the prev pointers the reverse of the next ones.
IdleListWellFormed ==
    /\ Len(IdleList) <= NIdle
    /\ \A i, k \in 1..Len(IdleList) : IdleList[i] = IdleList[k] => i = k
    /\ \A e \in Idles : iactive[e] <=> InList(IdleList, e)
    /\ \A i \in 1..Len(IdleList) :
           iprev[IdleList[i]] = IF i = 1 THEN 0 ELSE IdleList[i - 1]

\* C15: after any calls an entry is on the idle list at most once and its
\* active flag is true exactly when it is on the list; poller_idle_set of an
\* active entry and poller_idle_reset of an inactive one leave the list as it
\* was, and after poller_idle_set the entry is on the list, after
\* poller_idle_reset off it.
C15_IdleSetIdempotent ==
    /\ [](IdleListWellFormed)
    /\ [][\A e \in Idles :
            /\ icall' = <<"set", e, TRUE>> =>
                   UNCHANGED <<ihead, inext, iprev, iactive>>
            /\ icall' = <<"reset", e, FALSE>> =>
                   UNCHANGED <<ihead, inext, iprev, iactive>>
            /\ (icall' # <<>> /\ icall'[1] = "set" /\ icall'[2] = e) =>
                   InList(IdleList', e)
            /\ (icall' # <<>> /\ icall'[1] = "reset" /\ icall'[2] = e) =>
                   ~InList(IdleList', e)]_vars

\* C15's case: outside a pass, poller_idle_set has just been called on an
\* entry that was active already, in the middle of a list of three.
C15_Witness ==
    /\ icall = <<"set", 2, TRUE>>
    /\ IdleList = <<3, 2, 1>>
    /\ ipc = "out"

\* The entries that were active as the pass began and that no callback of
\* the pass has reset.
ActiveThroughout == atStart \ ireset

\* C22: an entry's active flag is cleared by poller_idle_reset of that entry
\* and by nothing else, its dispatcher having run or not; and when a pass of
\* poller_idle_dispatch has returned, every entry that was active as it
\* began and that was not reset has been invoked in it.
C22_FiringKeepsActive ==
    /\ [][\A e \in Idles :
             iactive[e] /\ ~iactive'[e] => icall' = <<"reset", e, TRUE>>]_vars
    /\ [](ipc = "out" => \A e \in ActiveThroughout : invoked[e] >= 1)

\* The entries no pass has skipped that none of its callbacks has called
\* poller_idle_reset in.
InvokedUnlessCallbacksReset ==
    ipc = "out" /\ ireset = {} => \A e \in atStart : invoked[e] >= 1

\* f was activated after e.
ActivatedAfter(f, e) ==
    \E i, k \in 1..Len(iorder) : i < k /\ iorder[i] = f /\ iorder[k] = e

\* C23: of two entries that are active from the beginning of a pass and
\* through it, the one that poller_idle_set activated last is invoked first.
C23_ReverseActivationOrder ==
    [][\A e \in ActiveThroughout :
          invoked[e] = 0 /\ invoked'[e] = 1 =>
              \A f \in ActiveThroughout :
                  ActivatedAfter(f, e) => invoked[f] >= 1]_vars

\* C23's case: three entries, activated in the order 1, 3, 2, with entry 3
\* reset and set again in between, have been invoked in a pass that has
\* returned.
C23_Witness ==
    /\ ipc = "out"
    /\ iorder = <<2, 3, 1>>
    /\ atStart = Idles
    /\ ireset = {}
    /\ \A e \in Idles : invoked[e] = 1

\* ---------------------------------------------- claims: the loop's turn ---

\* A step that changes the place of poller_run moves it to the next phase of
\* the iteration: from the wait to the timers, the idle callbacks, the async
\* manager, the descriptors, and out; or a fatal assertion ends the program.
\* A dispatcher is invoked in the descriptor phase only, for a poller_fd of
\* the batch that the wait of this iteration has captured.
PhaseStep ==
    /\ ppc' # ppc =>
           \/ ppc = "idle" /\ ppc' = "timers"
           \/ ppc = "timers" /\ ppc' = "idles"
           \/ ppc = "idles" /\ ppc' = "async"
           \/ ppc = "async" /\ ppc' = "fds"
           \/ ppc = "fds" /\ ppc' = "idle"
           \/ ppc' = "abort"
    /\ Len(dispatched') > Len(dispatched) =>
           /\ ppc = "fds"
           /\ dispatched'[Len(dispatched')] \in captured

\* C16: in an iteration of poller_run the wait returns, then the due timers
\* are dispatched, then the idle callbacks, then the async manager, then the
\* batch of that wait, and the wait is not called again before the
\* descriptor dispatch has ended.
C16_PhasesInOrder == [][PhaseStep]_vars

\* The same of the steps other than a call of poller_run from a callback
\* that the assertion lets through.
PhasesInOrderUnlessReentered == [][ppc' # "nested" => PhaseStep]_vars

\* C19: a call of poller_run from a callback of an iteration in progress
\* never gets past the assertion.
C19_ReentrantRunRejected == ppc # "nested"

\* The registrations are consistent: every slot holds a poller_fd whose
\* index is the slot, and every registered poller_fd is in its slot.
ValidIndices ==
    /\ \A i \in 1..Len(fds) : findex[fds[i]] = i - 1
    /\ \A g \in Fds : findex[g] # -1 =>
           findex[g] \in 0..(Len(fds) - 1) /\ fds[findex[g] + 1] = g
    /\ backend = "poll" =>
           /\ Len(pollfds) = Len(fds)
           /\ \A i \in 1..Len(fds) : pollfds[i].fd = fds[i]

\* C38: in each backend, whatever poller_fd_set and poller_fd_reset calls
\* were made, from callbacks of a dispatch too: every registered poller_fd
\* is in the slot its index names, the index being within the array; a
\* poller_fd that is in no slot has index -1; and no poller_fd is in two
\* slots.
C38_RegistrationBackIndex ==
    /\ \A f \in Fds :
           IF \E i \in 1..Len(fds) : fds[i] = f
           THEN /\ findex[f] \in 0..(Len(fds) - 1)
                /\ fds[findex[f] + 1] = f
           ELSE findex[f] = -1
    /\ \A i, j \in 1..Len(fds) : fds[i] = fds[j] => i = j
    /\ backend = "poll" =>
           /\ Len(pollfds) = Len(fds)
           /\ \A i \in 1..Len(fds) : pollfds[i].fd = fds[i]

\* C38's case: in a dispatcher of the descriptor phase a registration of
\* the batch was reset and set again, so that it came back in the last
\* slot, behind another registration.
C38_Witness ==
    /\ ppc = "fds"
    /\ incb
    /\ Len(fds) = 2
    /\ \E f \in resetB : findex[f] = 1

\* The entry refers to a registered poller_fd or to a slot of the dummy
\* array the poller has now.
EntryValid(e) ==
    IF e.dummy = -1 THEN e.fd \in eset ELSE e.dummy = edummy

\* C40: in the epoll backend, throughout the dispatch of a batch, every
\* entry of the batch refers to a poller_fd that is still registered or to
\* a slot of the poller's current dummy array, also after the arrays have
\* grown, and the binary search of poller_remove_from_dispatch has read no
\* released dummy slot.
C40_BatchEntriesValid ==
    /\ \A i \in 1..erevents_len : EntryValid(erevents[i])
    /\ ~ereleased

\* The same as long as the arrays have the size poller_init gave them.
BatchEntriesValidUnlessGrown ==
    ealloc = POLLER_MIN_ALLOC => C40_BatchEntriesValid /\ epc # "abort"

C17_DelayedCapsTimeout ==
    lwait.delayed => lwait.timeout \in 0..RetryTimeout

\* C18: with an entry on the idle list the timeout of the wait is 0, whatever
\* timers are scheduled and jobs delayed.
C18_IdleMeansNoWait ==
    lwait.idle => lwait.timeout = 0

\* C18's case: the timeout was asked for with an idle entry set, a timer
\* that expires later than the retry constant, and a delayed job.
C18_Witness ==
    /\ lwait.idle /\ lwait.timers /\ lwait.delayed
    /\ lwait.timeout = 0
    /\ ihead # 0
    /\ poller_timers_get_poll_timeout > RetryTimeout


====
